---------------------------- MODULE Spec2Model ----------------------------
(***************************************************************************)
(* Model of the streaming screen of rn-demo-app (src/unnamed/part_002):    *)
(* the WebSocket session effect (connect, subscribe, reconnect, teardown), *)
(* the tick buffer, the SQLite history and alert tables, and the           *)
(* fire-and-forget persistence / alert-evaluation chain.                   *)
(*                                                                         *)
(* JavaScript runs one callback at a time, so every action below is one    *)
(* callback run to its next await: an event handler, an effect cleanup or  *)
(* setup, a timer expiry, or the continuation of one awaited call.         *)
(***************************************************************************)
EXTENDS Integers, Sequences, FiniteSets, Bags, TLC

VARIABLES
    \* React state of the component
    activeSymbol, updates, connectionStatus, errorMessage, alerts, alertError,
    notificationAllowed, isDbReady,
    \* build-time configuration and component lifetime
    hasToken, mounted,
    \* position of the effect flush that follows a committed render
    phase, dirty,
    \* refs and the runtime objects they point to
    sockets, wsRef, timers, reconnectTimerRef, dbRef,
    \* SQLite tables and the AUTOINCREMENT counters
    price_updates, price_alerts, sqlite_sequence,
    \* async calls in flight, notifications handed to the OS
    tasks, notified,
    \* the callback that ran last (observation only, read by no action)
    lastOp,
    \* how many more inputs of each kind the environment will supply
    left

reactVars == <<activeSymbol, updates, connectionStatus, errorMessage, alerts,
               alertError, notificationAllowed, isDbReady>>
lifeVars  == <<hasToken, mounted>>
flushVars == <<phase, dirty>>
connVars  == <<sockets, wsRef, timers, reconnectTimerRef>>
dbVars    == <<dbRef, price_updates, price_alerts, sqlite_sequence>>
asyncVars == <<tasks, notified>>
vars == <<reactVars, lifeVars, flushVars, connVars, dbVars, asyncVars, lastOp, left>>

----------------------------------------------------------------------------
(* Bounds of the model *)

MaxSockets == 2
MaxTimers == 2

SockIds == 1..MaxSockets
TimerIds == 1..MaxTimers

(* A null ref, and the handle openDatabaseAsync resolves to *)
NULL == 0
DB == 1

----------------------------------------------------------------------------
(* Symbols are strings; a string is a sequence of one-character strings so *)
(* that trim() and toUpperCase() can be computed.                          *)

AAPL == <<"A", "A", "P", "L">>
TSLA == <<"T", "S", "L", "A">>

DEFAULT_SYMBOL == AAPL

Upper == [c \in {"a", "p", "l", "t", "s", "A", "P", "L", "T", "S", " "} |->
            CASE c = "a" -> "A" [] c = "p" -> "P" [] c = "l" -> "L"
              [] c = "t" -> "T" [] c = "s" -> "S" [] OTHER -> c]

toUpperCase(str) == [i \in 1..Len(str) |-> Upper[str[i]]]

RECURSIVE trimStart(_)
trimStart(str) ==
    IF str # <<>> /\ Head(str) = " " THEN trimStart(Tail(str)) ELSE str

RECURSIVE trimEnd(_)
trimEnd(str) ==
    IF str # <<>> /\ str[Len(str)] = " "
    THEN trimEnd(SubSeq(str, 1, Len(str) - 1))
    ELSE str

trim(str) == trimEnd(trimStart(str))

(* Texts a user can submit: the chips, typed tickers, blank input *)
RawSymbols ==
    { AAPL, TSLA,
      <<"a", "a", "p", "l">>,
      <<" ", "t", "s", "l", "a", " ">>,
      <<>>,
      <<" ", " ">> }

----------------------------------------------------------------------------
(* Messages shown in the status area *)

NoError == "none"
EnterSymbolMsg == "Enter a symbol to subscribe."
TokenMsg == "Set EXPO_PUBLIC_FINNHUB_TOKEN to stream live data."
LiveFeedMsg == "Live feed error, attempting to reconnect..."
CacheMsg == "Failed to load cached data."

----------------------------------------------------------------------------
(* Runtime objects *)

FreeSocket == [state |-> "free", sym |-> <<>>, manualClose |-> TRUE,
               closeRequested |-> FALSE, sent |-> <<>>, allowed |-> FALSE]
FreeTimer == [state |-> "free", sym |-> <<>>, manualClose |-> TRUE, allowed |-> FALSE]

Reusable(s) == sockets[s].state \in {"free", "closed"}
Live(s) == sockets[s].state \in {"connecting", "open"}

HasFreeSocket == \E s \in SockIds : Reusable(s)
NewSocket == CHOOSE s \in SockIds : Reusable(s) /\ \A r \in SockIds : r < s => ~Reusable(r)

HasFreeTimer == \E t \in TimerIds : timers[t].state = "free"
NewTimer == CHOOSE t \in TimerIds :
                timers[t].state = "free" /\ \A r \in TimerIds : r < t => timers[r].state # "free"

(* What is recorded of the callback that ran last: its name, the symbol    *)
(* it was started for, whether that symbol or session has been superseded, *)
(* the tick and rule ids it worked on, and whether its call succeeded (for *)
(* a close event: whether no reconnect timer was pending when it arrived). *)
OpOf(name, sym, stale, update, ids, ok) ==
    [op |-> name, sym |-> sym, stale |-> stale, update |-> update, ids |-> ids, ok |-> ok]

Op(name, sym, stale) ==
    OpOf(name, sym, stale, [key |-> <<>>, symbol |-> <<>>, price |-> 0, timestamp |-> 0],
         {}, TRUE)

pendingTimers == {t \in TimerIds : timers[t].state = "pending"}
liveSockets == {s \in SockIds : Live(s)}

(* The transports that exist and have not been asked to close *)
activeSockets == {s \in SockIds : Live(s) /\ ~sockets[s].closeRequested}

(* React ignores a state update of an unmounted component *)
setState(cur, val) == IF mounted THEN val ELSE cur

----------------------------------------------------------------------------
(* Program constants, part_002 lines 65-67 *)

MAX_ITEMS == 20
DB_MAX_ITEMS == 60
ALERT_MAX_ITEMS == 20

----------------------------------------------------------------------------
(* SQLite: the two tables are sets of rows; ids come from AUTOINCREMENT,   *)
(* so an id is never handed out twice.                                     *)

(* ORDER BY leaves the order of rows with equal sort keys open; a plan     *)
(* walks such rows by rowid, upwards or downwards.                         *)
TieOrders == {"asc", "desc"}

tieBefore(a, b, tie) == IF tie = "asc" THEN a.id < b.id ELSE a.id > b.id

(* ORDER BY timestamp DESC *)
byTimestampDesc(a, b, tie) ==
    \/ a.timestamp > b.timestamp
    \/ a.timestamp = b.timestamp /\ tieBefore(a, b, tie)

flag(b) == IF b THEN 1 ELSE 0

(* ORDER BY triggered ASC, price ASC *)
byTriggeredPrice(a, b, tie) ==
    \/ flag(a.triggered) < flag(b.triggered)
    \/ a.triggered = b.triggered /\ a.price < b.price
    \/ a.triggered = b.triggered /\ a.price = b.price /\ tieBefore(a, b, tie)

(* ORDER BY triggered ASC, id DESC *)
byTriggeredIdDesc(a, b, tie) ==
    \/ flag(a.triggered) < flag(b.triggered)
    \/ a.triggered = b.triggered /\ a.id > b.id

RECURSIVE orderBy(_, _, _)
orderBy(rows, before(_, _, _), tie) ==
    IF rows = {} THEN <<>>
    ELSE LET first == CHOOSE r \in rows : \A o \in rows : o = r \/ before(r, o, tie)
         IN <<first>> \o orderBy(rows \ {first}, before, tie)

limit(seq, n) == SubSeq(seq, 1, IF Len(seq) < n THEN Len(seq) ELSE n)

range(seq) == {seq[i] : i \in 1..Len(seq)}

(* SELECT symbol, price, timestamp FROM price_updates WHERE symbol = ?      *)
(* ORDER BY timestamp DESC LIMIT ?                                         *)
selectRecent(symbol, n, tie) ==
    limit(orderBy({r \in price_updates : r.symbol = symbol}, byTimestampDesc, tie), n)

(* INSERT INTO price_updates (symbol, price, timestamp) *)
insertUpdate(update) ==
    /\ price_updates' = price_updates \cup
           {[id |-> sqlite_sequence.price_updates + 1, symbol |-> update.symbol,
             price |-> update.price, timestamp |-> update.timestamp]}
    /\ sqlite_sequence' = [sqlite_sequence EXCEPT !.price_updates = @ + 1]

(* A slip: the outer WHERE clause forgets the symbol *)
pruneUpdatesAnySymbol(symbol, n, tie) ==
    price_updates' = range(selectRecent(symbol, n, tie))

(* A slip: the rows kept are the n inserted last, not the n newest *)
pruneUpdatesByRowId(symbol, n, tie) ==
    price_updates' = {r \in price_updates : r.symbol # symbol}
                        \cup {r \in price_updates :
                                 /\ r.symbol = symbol
                                 /\ Cardinality({o \in price_updates :
                                        o.symbol = symbol /\ o.id > r.id}) < n}

(* DELETE FROM price_updates WHERE symbol = ? AND id NOT IN (the newest n) *)
pruneUpdates(symbol, n, tie) ==
    price_updates' = {r \in price_updates : r.symbol # symbol}
                        \cup range(selectRecent(symbol, n, tie))

(* A slip: the WHERE clause forgets the symbol *)
selectUntriggeredAnySymbol(symbol) == {r \in price_alerts : ~r.triggered}

(* SELECT id, direction, price FROM price_alerts WHERE symbol = ? AND triggered = 0 *)
selectUntriggered(symbol) == {r \in price_alerts : r.symbol = symbol /\ ~r.triggered}

(* SELECT ... FROM price_alerts WHERE symbol = ? ORDER BY triggered ASC, price ASC LIMIT ? *)
selectAlerts(symbol, n, tie) ==
    limit(orderBy({r \in price_alerts : r.symbol = symbol}, byTriggeredPrice, tie), n)

(* A slip: the UPDATE rewrites the flag of every row instead of setting it *)
markTriggeredRewrite(ids) ==
    [r \in price_alerts |-> [r EXCEPT !.triggered = (r.id \in ids)]]

(* UPDATE price_alerts SET triggered = 1 WHERE id IN (...): row by row *)
markTriggered(ids) ==
    [r \in price_alerts |-> IF r.id \in ids THEN [r EXCEPT !.triggered = TRUE] ELSE r]

updateAlerts(ids) ==
    price_alerts' = {markTriggered(ids)[r] : r \in price_alerts}

(* INSERT INTO price_alerts (symbol, direction, price, triggered) VALUES (?, ?, ?, 0) *)
insertAlert(symbol, direction, price) ==
    /\ price_alerts' = price_alerts \cup
           {[id |-> sqlite_sequence.price_alerts + 1, symbol |-> symbol,
             direction |-> direction, price |-> price, triggered |-> FALSE]}
    /\ sqlite_sequence' = [sqlite_sequence EXCEPT !.price_alerts = @ + 1]

(* A slip: the rules kept are the n newest, triggered or not *)
pruneAlertsNewestOnly(symbol, n) ==
    price_alerts' = {r \in price_alerts :
        r.symbol # symbol \/
        Cardinality({a \in price_alerts : a.symbol = symbol /\ a.id > r.id}) < n}

(* DELETE FROM price_alerts WHERE symbol = ? AND id NOT IN                  *)
(* (... ORDER BY triggered ASC, id DESC LIMIT ?)                           *)
pruneAlerts(symbol, n) ==
    price_alerts' = {r \in price_alerts :
        r.symbol # symbol \/
        r \in range(limit(orderBy({a \in price_alerts : a.symbol = symbol},
                                  byTriggeredIdDesc, "asc"), n))}

(* DELETE FROM price_alerts WHERE id = ? *)
deleteAlert(id) ==
    price_alerts' = {r \in price_alerts : r.id # id}

----------------------------------------------------------------------------
(* Inbound frames.  A frame is text that JSON.parse rejects, or a parsed   *)
(* payload; the fields of a trade keep their JSON type, because the        *)
(* handler coerces them.                                                   *)

MaxBatch == 2

Prices == {1, 2}
Times == {1, 2}
Symbols == {AAPL, TSLA}

Num(n) == [t |-> "number", v |-> n]
NumText(n) == [t |-> "string", v |-> n]
Garbage == [t |-> "string", v |-> -1]
Undefined == [t |-> "undefined", v |-> 0]
JsonNull == [t |-> "null", v |-> 0]

(* The text of a negative number: a minus sign and digits *)
Minus(n) == [t |-> "minus", v |-> n]

Sym(x) == [t |-> "string", v |-> x]
NoSym == [t |-> "undefined", v |-> <<>>]

Trade(s, p, t) == [kind |-> "object", s |-> s, p |-> p, t |-> t]
NullElement == [kind |-> "null", s |-> NoSym, p |-> Undefined, t |-> Undefined]
NumberElement == [kind |-> "number", s |-> NoSym, p |-> Undefined, t |-> Undefined]

(* Number(x) for the values above; nan marks NaN *)
Number(x) ==
    CASE x.t = "number" -> [nan |-> FALSE, v |-> x.v]
      [] x.t = "string" -> IF x.v < 0 THEN [nan |-> TRUE, v |-> 0]
                                      ELSE [nan |-> FALSE, v |-> x.v]
      [] x.t = "null" -> [nan |-> FALSE, v |-> 0]
      [] x.t = "minus" -> [nan |-> FALSE, v |-> 0 - x.v]
      [] OTHER -> [nan |-> TRUE, v |-> 0]

(* typeof x === 'number' ? x : Number(x) *)
coerce(x) == IF x.t = "number" THEN [nan |-> FALSE, v |-> x.v] ELSE Number(x)

ValidTrades == {Trade(Sym(s), Num(p), Num(t)) : s \in Symbols, p \in Prices, t \in Times}

InvalidTrades ==
    { Trade(NoSym, Num(1), Num(1)),
      Trade(Sym(AAPL), Garbage, Num(1)),
      Trade(Sym(AAPL), Num(1), Undefined),
      NumberElement,
      NullElement }

CoercedTrades ==
    { Trade(Sym(AAPL), NumText(1), Num(2)),
      Trade(Sym(AAPL), JsonNull, Num(1)) }

Trades == ValidTrades \cup InvalidTrades \cup CoercedTrades

Batches(elems) == UNION {[1..n -> elems] : n \in 1..MaxBatch}

MalformedFrame == [kind |-> "malformed", data |-> <<>>]
NoDataFrame == [kind |-> "nodata", data |-> <<>>]
BinaryFrame == [kind |-> "binary", data |-> <<>>]
DataFrame(batch) == [kind |-> "data", data |-> batch]

Frames(elems) ==
    {MalformedFrame, NoDataFrame, BinaryFrame} \cup {DataFrame(b) : b \in Batches(elems)}

----------------------------------------------------------------------------
(* handleMessage, lines 635-670 *)

PriceUpdate(symbol, price, timestamp) ==
    [key |-> <<symbol, timestamp, price>>, symbol |-> symbol,
     price |-> price, timestamp |-> timestamp]

(* Reading a property of null throws; the try block ends there *)
throws(trade) == trade.kind = "null"

(* A slip: the comparison with the session's symbol is forgotten *)
acceptedAnySymbol(trade, symbolForSession) ==
    /\ trade.kind = "object"
    /\ trade.s.t = "string" /\ trade.s.v # <<>>
    /\ ~coerce(trade.p).nan
    /\ ~coerce(trade.t).nan

(* The element passes the test of line 648 *)
accepted(trade, symbolForSession) ==
    /\ trade.kind = "object"
    /\ trade.s.t = "string" /\ trade.s.v # <<>>
    /\ ~coerce(trade.p).nan
    /\ ~coerce(trade.t).nan
    /\ trade.s.v = symbolForSession

toUpdate(trade) == PriceUpdate(trade.s.v, coerce(trade.p).v, coerce(trade.t).v)

(* A slip: the slice is forgotten *)
prependNoSlice(prev, update) ==
    LET differs(item) == item.key # update.key
    IN <<update>> \o SelectSeq(prev, differs)

(* A slip: the entry is put where its timestamp places it *)
prependByTimestamp(prev, update) ==
    LET differs(item) == item.key # update.key
        newer(item) == differs(item) /\ item.timestamp > update.timestamp
        older(item) == differs(item) /\ item.timestamp <= update.timestamp
    IN limit(SelectSeq(prev, newer) \o <<update>> \o SelectSeq(prev, older), MAX_ITEMS)

(* setUpdates(prev => [update, ...prev.filter(item => item.key !== update.key)].slice(0, MAX_ITEMS)) *)
prepend(prev, update) ==
    LET differs(item) == item.key # update.key
    IN limit(<<update>> \o SelectSeq(prev, differs), MAX_ITEMS)

(* The updates the forEach of lines 643-666 accepts, in order, up to the   *)
(* element that throws.                                                    *)
RECURSIVE acceptedUpdates(_, _)
acceptedUpdates(trades, symbolForSession) ==
    IF trades = <<>> \/ throws(Head(trades)) THEN <<>>
    ELSE (IF accepted(Head(trades), symbolForSession)
          THEN <<toUpdate(Head(trades))>> ELSE <<>>)
         \o acceptedUpdates(Tail(trades), symbolForSession)

RECURSIVE prependAll(_, _)
prependAll(prev, news) ==
    IF news = <<>> THEN prev ELSE prependAll(prepend(prev, Head(news)), Tail(news))

----------------------------------------------------------------------------
(* Async calls in flight.  A task is the closure of one async function     *)
(* suspended at an await; pc names the awaited call.                       *)

NoUpdate == PriceUpdate(<<>>, 0, 0)

Task(kind, pc, symbol) ==
    [kind |-> kind, pc |-> pc, symbol |-> symbol, update |-> NoUpdate,
     ids |-> {}, allowed |-> FALSE, direction |-> "above", price |-> 0, id |-> 0]

PersistTask(update, allowed) ==
    [Task("persist", "insert", update.symbol) EXCEPT !.update = update, !.allowed = allowed]

SaveTask(symbol, direction, price) ==
    [Task("save", "insert", symbol) EXCEPT !.direction = direction, !.price = price]

RemoveTask(symbol, id) ==
    [Task("remove", "delete", symbol) EXCEPT !.id = id]

InFlight == BagToSet(tasks)

spawn(bag, t) == bag (+) SetToBag({t})
finish(bag, t) == bag (-) SetToBag({t})
become(bag, t, next) == spawn(finish(bag, t), next)

RECURSIVE spawnAll(_, _)
spawnAll(bag, ts) ==
    IF ts = <<>> THEN bag ELSE spawnAll(spawn(bag, Head(ts)), Tail(ts))

count(bag, x) == CopiesIn(x, bag)

(* The persist tasks handleMessage starts: persistUpdate returns at once   *)
(* when dbRef.current is null, and so does checkAlertsForUpdate after it.  *)
persistTasks(news, allowed) ==
    IF dbRef = NULL THEN <<>>
    ELSE [i \in 1..Len(news) |-> PersistTask(news[i], allowed)]

(* A slip: a frame without trades empties the list *)
handleMessageResetsOnNoTrades(s, frame) ==
    LET news == IF frame.kind = "data"
                THEN acceptedUpdates(frame.data, sockets[s].sym)
                ELSE <<>>
    IN /\ updates' = IF frame.kind = "data"
                     THEN setState(updates, prependAll(updates, news))
                     ELSE <<>>
       /\ errorMessage' = IF news = <<>> THEN errorMessage
                          ELSE setState(errorMessage, NoError)
       /\ tasks' = spawnAll(tasks, persistTasks(news, sockets[s].allowed))

(* handleMessage as a whole: buffer, message line, tasks *)
handleMessage(s, frame) ==
    LET news == IF frame.kind = "data"
                THEN acceptedUpdates(frame.data, sockets[s].sym)
                ELSE <<>>
    IN /\ updates' = setState(updates, prependAll(updates, news))
       /\ errorMessage' = IF news = <<>> THEN errorMessage
                          ELSE setState(errorMessage, NoError)
       /\ tasks' = spawnAll(tasks, persistTasks(news, sockets[s].allowed))

----------------------------------------------------------------------------
(* checkAlertsForUpdate, lines 348-417 *)

(* A slip: strict comparisons *)
isTriggeredStrict(row, update) ==
    \/ row.direction = "above" /\ update.price > row.price
    \/ row.direction = "below" /\ update.price < row.price

isTriggered(row, update) ==
    \/ row.direction = "above" /\ update.price >= row.price
    \/ row.direction = "below" /\ update.price <= row.price

triggeredIds(rows, update) == {r.id : r \in {x \in rows : isTriggered(x, update)}}

(* String(row.id) and Number(alertId) *)
String(n) == [digits |-> n]
ParseId(str) == str.digits

AlertThreshold(row) ==
    [id |-> String(row.id), symbol |-> row.symbol, direction |-> row.direction,
     price |-> row.price, triggered |-> row.triggered]

loadedAlerts(symbol, tie) ==
    LET rows == selectAlerts(symbol, ALERT_MAX_ITEMS, tie)
    IN [i \in 1..Len(rows) |-> AlertThreshold(rows[i])]

(* loadCachedUpdates maps row i to an entry whose key ends in the index i *)
loadedUpdates(symbol, tie) ==
    LET rows == selectRecent(symbol, MAX_ITEMS, tie)
    IN [i \in 1..Len(rows) |->
           [key |-> <<rows[i].symbol, rows[i].timestamp, i - 1>>,
            symbol |-> rows[i].symbol, price |-> rows[i].price,
            timestamp |-> rows[i].timestamp]]

EmptyNotified == [requested |-> EmptyBag, delivered |-> EmptyBag]

addAll(bag, ids) == bag (+) SetToBag(ids)

----------------------------------------------------------------------------
(* The session effect, part_002 lines 605-716 *)

(* connect(): a new WebSocket whose handlers close over the session's      *)
(* symbolForSession, manualClose and persistAndCheckUpdate.                *)
connect(sym, manual, allowed) ==
    /\ connectionStatus' = setState(connectionStatus, "connecting")
    /\ errorMessage' = setState(errorMessage, NoError)
    /\ sockets' = [sockets EXCEPT ![NewSocket] =
                      [state |-> "connecting", sym |-> sym, manualClose |-> manual,
                       closeRequested |-> FALSE, sent |-> <<>>, allowed |-> allowed]]
    /\ wsRef' = NewSocket

(* Plausible slip: the `|| reconnectTimerRef.current` half of the guard is missing *)
scheduleReconnectNoRefGuard(sym, manual, allowed) ==
    IF manual
    THEN UNCHANGED <<timers, reconnectTimerRef>>
    ELSE /\ timers' = [timers EXCEPT ![NewTimer] =
                          [state |-> "pending", sym |-> sym, manualClose |-> manual,
                           allowed |-> allowed]]
         /\ reconnectTimerRef' = NewTimer

scheduleReconnect(sym, manual, allowed) ==
    IF manual \/ reconnectTimerRef # NULL
    THEN UNCHANGED <<timers, reconnectTimerRef>>
    ELSE /\ timers' = [timers EXCEPT ![NewTimer] =
                          [state |-> "pending", sym |-> sym, manualClose |-> manual,
                           allowed |-> allowed]]
         /\ reconnectTimerRef' = NewTimer

(* ws.onclose *)
onclose(s) ==
    IF sockets[s].manualClose
    THEN UNCHANGED <<connectionStatus, errorMessage, wsRef, timers, reconnectTimerRef>>
    ELSE /\ connectionStatus' = setState(connectionStatus, "closed")
         /\ scheduleReconnect(sockets[s].sym, sockets[s].manualClose, sockets[s].allowed)
         /\ UNCHANGED <<errorMessage, wsRef>>

(* ws.onopen *)
onopen(s) ==
    /\ connectionStatus' = setState(connectionStatus, "open")
    /\ sockets' = [sockets EXCEPT ![s].state = "open",
                                  ![s].sent = Append(@, sockets[s].sym)]

(* A slip: the error handler sets the status but not the message *)
onerrorSilent(s) ==
    /\ connectionStatus' = setState(connectionStatus, "error")
    /\ UNCHANGED errorMessage

(* ws.onerror *)
onerror(s) ==
    /\ connectionStatus' = setState(connectionStatus, "error")
    /\ errorMessage' = setState(errorMessage, LiveFeedMsg)

(* The timer callback of scheduleReconnect; a slip: it forgets to connect *)
reconnectNoConnect(t) ==
    /\ reconnectTimerRef' = NULL
    /\ timers' = [timers EXCEPT ![t] = FreeTimer]
    /\ UNCHANGED <<connectionStatus, errorMessage, sockets, wsRef>>

reconnect(t) ==
    /\ reconnectTimerRef' = NULL
    /\ timers' = [timers EXCEPT ![t] = FreeTimer]
    /\ connect(timers[t].sym, timers[t].manualClose, timers[t].allowed)

(* The closures of the current session are the ones whose flag is still false *)
markManual(pool) == [i \in DOMAIN pool |-> [pool[i] EXCEPT !.manualClose = TRUE]]

closeSocket(pool, s) ==
    IF s # NULL /\ pool[s].state \in {"connecting", "open"}
    THEN [pool EXCEPT ![s].closeRequested = TRUE]
    ELSE pool

clearTimeout(pool, t) ==
    IF t # NULL THEN [pool EXCEPT ![t] = FreeTimer] ELSE pool

(* Plausible slip: the cleanup closes the transport but never sets the flag *)
sessionCleanupNoFlag ==
    /\ timers' = clearTimeout(timers, reconnectTimerRef)
    /\ reconnectTimerRef' = NULL
    /\ sockets' = closeSocket(sockets, wsRef)
    /\ wsRef' = NULL

(* Plausible slip: the cleanup drops the reference without closing the socket *)
sessionCleanupNoClose ==
    /\ timers' = clearTimeout(markManual(timers), reconnectTimerRef)
    /\ reconnectTimerRef' = NULL
    /\ sockets' = markManual(sockets)
    /\ wsRef' = NULL

(* The function returned by the session effect *)
sessionCleanup ==
    IF hasToken
    THEN /\ timers' = clearTimeout(markManual(timers), reconnectTimerRef)
         /\ reconnectTimerRef' = NULL
         /\ sockets' = closeSocket(markManual(sockets), wsRef)
         /\ wsRef' = NULL
    ELSE /\ timers' = markManual(timers)
         /\ sockets' = markManual(sockets)
         /\ UNCHANGED <<reconnectTimerRef, wsRef>>

(* The reload effect, lines 596-602: loadCachedUpdates and loadAlerts are  *)
(* called and not awaited.                                                 *)
reloadEffect ==
    IF ~isDbReady \/ dbRef = NULL
    THEN UNCHANGED tasks
    ELSE tasks' = spawn(spawn(tasks, Task("loadCached", "select", activeSymbol)),
                        Task("loadAlerts", "select", activeSymbol))

(* A slip: the effect connects whether or not a token is configured *)
sessionEffectIgnoresToken ==
    /\ connect(activeSymbol, FALSE, notificationAllowed)
    /\ UNCHANGED <<timers, reconnectTimerRef>>

(* The body of the session effect *)
sessionEffect ==
    IF ~hasToken
    THEN /\ timers' = clearTimeout(timers, reconnectTimerRef)
         /\ reconnectTimerRef' = NULL
         /\ sockets' = closeSocket(sockets, wsRef)
         /\ wsRef' = NULL
         /\ connectionStatus' = setState(connectionStatus, "error")
         /\ errorMessage' = setState(errorMessage, TokenMsg)
    ELSE /\ connect(activeSymbol, FALSE, notificationAllowed)
         /\ UNCHANGED <<timers, reconnectTimerRef>>

----------------------------------------------------------------------------
(* Callbacks of the session: each is one run-to-completion step *)

Idle == phase = "idle"

(* A slip: the comparison with the active symbol is missing *)
applySymbolNoSameCheck(rawSymbol) ==
    LET normalized == toUpperCase(trim(rawSymbol)) IN
    IF normalized = <<>>
    THEN /\ errorMessage' = EnterSymbolMsg
         /\ UNCHANGED <<activeSymbol, updates, phase, dirty>>
    ELSE /\ activeSymbol' = normalized
         /\ updates' = <<>>
         /\ errorMessage' = NoError
         /\ IF normalized = activeSymbol
            THEN UNCHANGED <<phase, dirty>>
            ELSE /\ phase' = "cleanup"
                 /\ dirty' = {"reload", "session"}

(* applySymbol, reached from the text field and from the quick chips.      *)
(* A changed activeSymbol commits a render whose effects are then flushed: *)
(* the cleanups first, the reload effect and the session effect after.     *)
applySymbol(rawSymbol) ==
    LET normalized == toUpperCase(trim(rawSymbol)) IN
    IF normalized = <<>>
    THEN /\ errorMessage' = EnterSymbolMsg
         /\ UNCHANGED <<activeSymbol, updates, phase, dirty>>
    ELSE IF normalized = activeSymbol
    THEN /\ errorMessage' = NoError
         /\ UNCHANGED <<activeSymbol, updates, phase, dirty>>
    ELSE /\ activeSymbol' = normalized
         /\ updates' = <<>>
         /\ errorMessage' = NoError
         /\ phase' = "cleanup"
         /\ dirty' = {"reload", "session"}

ApplySymbol(rawSymbol) ==
    /\ Idle /\ mounted
    /\ hasToken => HasFreeSocket
    /\ applySymbol(rawSymbol)
    /\ lastOp' = [op |-> "applySymbol", sym |-> <<>>, stale |-> FALSE,
                  update |-> NoUpdate, ids |-> {}, ok |-> TRUE, raw |-> rawSymbol]
    /\ UNCHANGED <<connectionStatus, alerts, alertError, notificationAllowed, isDbReady,
                   lifeVars, connVars, dbVars, asyncVars>>

(* The component is removed: every effect's cleanup runs, none is set up again *)
Unmount ==
    /\ Idle /\ mounted
    /\ mounted' = FALSE
    /\ phase' = "cleanup"
    /\ dirty' = {"db", "session"}
    /\ lastOp' = Op("unmount", <<>>, FALSE)
    /\ UNCHANGED <<reactVars, hasToken, connVars, dbVars, asyncVars>>

(* Effect cleanups of the flush: the storage effect's (lines 589-592) on    *)
(* unmount, the session effect's (lines 707-715) whenever it is re-run.    *)
Cleanup ==
    /\ phase = "cleanup"
    /\ IF "session" \in dirty
       THEN sessionCleanup
       ELSE UNCHANGED connVars
    /\ IF "db" \in dirty
       THEN dbRef' = NULL
       ELSE UNCHANGED dbRef
    /\ phase' = IF mounted THEN "setup" ELSE "idle"
    /\ dirty' = IF mounted THEN dirty ELSE {}
    /\ lastOp' = Op("cleanup", <<>>, FALSE)
    /\ UNCHANGED <<reactVars, lifeVars, price_updates, price_alerts,
                   sqlite_sequence, asyncVars>>

(* Effect bodies of the flush, in declaration order: reload effect         *)
(* (lines 596-602), then session effect (lines 605-705).                   *)
Setup ==
    /\ phase = "setup"
    /\ IF "session" \in dirty
       THEN sessionEffect
       ELSE UNCHANGED <<connVars, connectionStatus, errorMessage>>
    /\ IF "reload" \in dirty
       THEN reloadEffect
       ELSE UNCHANGED tasks
    /\ phase' = "idle"
    /\ dirty' = {}
    /\ lastOp' = Op("setup", <<>>, FALSE)
    /\ UNCHANGED <<activeSymbol, updates, alerts, alertError, notificationAllowed, isDbReady,
                   lifeVars, dbVars, notified>>

(* The transport reports that the connection is established *)
TransportOpen(s) ==
    /\ Idle
    /\ sockets[s].state = "connecting"
    /\ onopen(s)
    /\ lastOp' = Op("open", <<>>, sockets[s].manualClose)
    /\ UNCHANGED <<activeSymbol, updates, errorMessage, alerts, alertError,
                   notificationAllowed, isDbReady, lifeVars, flushVars, wsRef, timers, reconnectTimerRef,
                   dbVars, asyncVars>>

(* The transport reports an error; the socket itself is left as it is *)
TransportError(s) ==
    /\ Idle
    /\ Live(s)
    /\ onerror(s)
    /\ lastOp' = Op("error", <<>>, sockets[s].manualClose)
    /\ UNCHANGED <<activeSymbol, updates, alerts, alertError, notificationAllowed, isDbReady,
                   lifeVars, flushVars, connVars, dbVars, asyncVars>>

(* The transport reports that the connection is gone (dropped by the peer  *)
(* or the network, or closed on request): once per socket.  A closed       *)
(* socket is garbage unless the environment `keeps` it to repeat the event. *)
TransportClose(s, keep) ==
    /\ Idle
    /\ Live(s)
    /\ HasFreeTimer
    /\ sockets' = [sockets EXCEPT ![s] = IF keep THEN [@ EXCEPT !.state = "closed"]
                                                 ELSE FreeSocket]
    /\ onclose(s)
    /\ lastOp' = OpOf("close", <<>>, sockets[s].manualClose, NoUpdate, {},
                      reconnectTimerRef = NULL)
    /\ UNCHANGED <<activeSymbol, updates, alerts, alertError, notificationAllowed, isDbReady,
                   lifeVars, flushVars, dbVars, asyncVars>>

(* A close event delivered again to the handler of a socket that has       *)
(* already reported its close (an environment that repeats the event).     *)
RepeatedClose(s) ==
    /\ Idle
    /\ sockets[s].state = "closed"
    /\ HasFreeTimer
    /\ onclose(s)
    /\ lastOp' = OpOf("closeAgain", <<>>, sockets[s].manualClose, NoUpdate, {},
                      reconnectTimerRef = NULL)
    /\ UNCHANGED <<activeSymbol, updates, alerts, alertError, notificationAllowed, isDbReady,
                   lifeVars, flushVars, sockets, dbVars, asyncVars>>

(* The 3000 ms reconnect timer expires *)
TimerFire(t) ==
    /\ Idle
    /\ timers[t].state = "pending"
    /\ HasFreeSocket
    /\ reconnect(t)
    /\ lastOp' = Op("timer", <<>>, timers[t].manualClose)
    /\ UNCHANGED <<activeSymbol, updates, alerts, alertError, notificationAllowed, isDbReady,
                   lifeVars, flushVars, dbVars, asyncVars>>

----------------------------------------------------------------------------
(* Callbacks of the stream: frames, and the continuations of awaited calls *)

Stale(symbol) == symbol # activeSymbol

(* ws.onmessage, lines 684-688 *)
TransportMessage(s, frame) ==
    /\ Idle
    /\ sockets[s].state = "open"
    /\ IF frame.kind = "binary"
       THEN UNCHANGED <<updates, errorMessage, tasks>>
       ELSE handleMessage(s, frame)
    /\ lastOp' = [op |-> "message", sym |-> sockets[s].sym,
                  stale |-> sockets[s].manualClose, update |-> NoUpdate, ids |-> {},
                  ok |-> frame.kind = "data", frame |-> frame]
    /\ UNCHANGED <<activeSymbol, connectionStatus, alerts, alertError,
                   notificationAllowed, isDbReady, lifeVars, flushVars, connVars,
                   dbVars, notified>>

(* checkAlertsForUpdate starts when persistUpdate has returned *)
afterPersist(t) ==
    IF dbRef = NULL THEN finish(tasks, t) ELSE become(tasks, t, [t EXCEPT !.pc = "select"])

(* A slip: an INSERT that fails ends persistAndCheckUpdate *)
PersistInsertFailureEndsChain(t, ok) ==
    /\ Idle
    /\ t \in InFlight /\ t.kind = "persist" /\ t.pc = "insert"
    /\ IF ok
       THEN /\ insertUpdate(t.update)
            /\ tasks' = become(tasks, t, [t EXCEPT !.pc = "prune"])
       ELSE /\ UNCHANGED <<price_updates, sqlite_sequence>>
            /\ tasks' = finish(tasks, t)
    /\ lastOp' = OpOf("insert", t.symbol, Stale(t.symbol), t.update, {}, ok)
    /\ UNCHANGED <<reactVars, lifeVars, flushVars, connVars, dbRef, price_alerts, notified>>

(* persistUpdate: the INSERT has run *)
PersistInsert(t, ok) ==
    /\ Idle
    /\ t \in InFlight /\ t.kind = "persist" /\ t.pc = "insert"
    /\ IF ok
       THEN /\ insertUpdate(t.update)
            /\ tasks' = become(tasks, t, [t EXCEPT !.pc = "prune"])
       ELSE /\ UNCHANGED <<price_updates, sqlite_sequence>>
            /\ tasks' = afterPersist(t)
    /\ lastOp' = OpOf("insert", t.symbol, Stale(t.symbol), t.update, {}, ok)
    /\ UNCHANGED <<reactVars, lifeVars, flushVars, connVars, dbRef, price_alerts, notified>>

(* A slip: a DELETE that fails is not caught in persistUpdate and ends     *)
(* persistAndCheckUpdate                                                   *)
PersistPruneFailureEscapes(t, ok, tie) ==
    /\ Idle
    /\ t \in InFlight /\ t.kind = "persist" /\ t.pc = "prune"
    /\ IF ok
       THEN /\ pruneUpdates(t.symbol, DB_MAX_ITEMS, tie)
            /\ tasks' = afterPersist(t)
       ELSE /\ UNCHANGED price_updates
            /\ tasks' = finish(tasks, t)
    /\ lastOp' = OpOf("prune", t.symbol, Stale(t.symbol), t.update, {}, ok)
    /\ UNCHANGED <<reactVars, lifeVars, flushVars, connVars, dbRef, price_alerts,
                   sqlite_sequence, notified>>

(* persistUpdate: the pruning DELETE has run *)
PersistPrune(t, ok, tie) ==
    /\ Idle
    /\ t \in InFlight /\ t.kind = "persist" /\ t.pc = "prune"
    /\ IF ok
       THEN pruneUpdates(t.symbol, DB_MAX_ITEMS, tie)
       ELSE UNCHANGED price_updates
    /\ tasks' = afterPersist(t)
    /\ lastOp' = OpOf("prune", t.symbol, Stale(t.symbol), t.update, {}, ok)
    /\ UNCHANGED <<reactVars, lifeVars, flushVars, connVars, dbRef, price_alerts,
                   sqlite_sequence, notified>>

(* checkAlertsForUpdate: the SELECT has run; every matching rule is pushed *)
(* to triggeredIds and, when notifications are allowed, handed to          *)
(* scheduleNotificationAsync, all of which are then awaited.               *)
CheckAlerts(t, ok) ==
    LET ids == IF ok THEN triggeredIds(selectUntriggered(t.symbol), t.update) ELSE {}
    IN /\ Idle
       /\ t \in InFlight /\ t.kind = "persist" /\ t.pc = "select"
       /\ IF ids = {}
          THEN /\ tasks' = finish(tasks, t)
               /\ UNCHANGED notified
          ELSE IF t.allowed
          THEN /\ notified' = [notified EXCEPT !.requested = addAll(@, ids)]
               /\ tasks' = become(tasks, t, [t EXCEPT !.pc = "notify", !.ids = ids])
          ELSE /\ tasks' = become(tasks, t, [t EXCEPT !.pc = "mark", !.ids = ids])
               /\ UNCHANGED notified
       /\ lastOp' = OpOf("checkAlerts", t.symbol, Stale(t.symbol), t.update, ids, ok)
       /\ UNCHANGED <<reactVars, lifeVars, flushVars, connVars, dbVars>>

(* A slip: a rejected scheduleNotificationAsync is not caught, so the      *)
(* evaluation ends in its outer catch before the UPDATE.                   *)
NotifyDoneAborts(t, delivered) ==
    /\ Idle
    /\ t \in InFlight /\ t.kind = "persist" /\ t.pc = "notify"
    /\ delivered \subseteq t.ids
    /\ notified' = [notified EXCEPT !.delivered = addAll(@, delivered)]
    /\ tasks' = IF delivered = t.ids THEN become(tasks, t, [t EXCEPT !.pc = "mark"])
                ELSE finish(tasks, t)
    /\ lastOp' = OpOf("notify", t.symbol, Stale(t.symbol), t.update, delivered,
                      delivered = t.ids)
    /\ UNCHANGED <<reactVars, lifeVars, flushVars, connVars, dbVars>>

(* The scheduleNotificationAsync calls have settled: `delivered` are the   *)
(* ones that succeeded, the rejections are caught one by one.              *)
NotifyDone(t, delivered) ==
    /\ Idle
    /\ t \in InFlight /\ t.kind = "persist" /\ t.pc = "notify"
    /\ delivered \subseteq t.ids
    /\ notified' = [notified EXCEPT !.delivered = addAll(@, delivered)]
    /\ tasks' = become(tasks, t, [t EXCEPT !.pc = "mark"])
    /\ lastOp' = OpOf("notify", t.symbol, Stale(t.symbol), t.update, delivered,
                      delivered = t.ids)
    /\ UNCHANGED <<reactVars, lifeVars, flushVars, connVars, dbVars>>

(* loadAlerts(symbol) up to its await: without a handle it empties the list *)
startLoadAlerts(t, symbol) ==
    IF dbRef = NULL
    THEN /\ alerts' = setState(alerts, <<>>)
         /\ tasks' = finish(tasks, t)
    ELSE /\ tasks' = become(tasks, t, Task("loadAlerts", "select", symbol))
         /\ UNCHANGED alerts

(* A slip: the catch of checkAlertsForUpdate reports the failed UPDATE as a *)
(* failure of the stream                                                   *)
AlertUpdateFailureShown(t, ok) ==
    /\ Idle
    /\ t \in InFlight /\ t.kind = "persist" /\ t.pc = "mark"
    /\ IF ok
       THEN /\ updateAlerts(t.ids)
            /\ startLoadAlerts(t, t.symbol)
            /\ UNCHANGED connectionStatus
       ELSE /\ tasks' = finish(tasks, t)
            /\ connectionStatus' = setState(connectionStatus, "error")
            /\ UNCHANGED <<price_alerts, alerts>>
    /\ lastOp' = OpOf("alertUpdate", t.symbol, Stale(t.symbol), t.update, t.ids, ok)
    /\ UNCHANGED <<activeSymbol, updates, errorMessage, alertError,
                   notificationAllowed, isDbReady, lifeVars, flushVars, connVars,
                   dbRef, price_updates, sqlite_sequence, notified>>

(* checkAlertsForUpdate: the UPDATE has run; loadAlerts follows *)
AlertUpdate(t, ok) ==
    /\ Idle
    /\ t \in InFlight /\ t.kind = "persist" /\ t.pc = "mark"
    /\ IF ok
       THEN /\ updateAlerts(t.ids)
            /\ startLoadAlerts(t, t.symbol)
       ELSE /\ tasks' = finish(tasks, t)
            /\ UNCHANGED <<price_alerts, alerts>>
    /\ lastOp' = OpOf("alertUpdate", t.symbol, Stale(t.symbol), t.update, t.ids, ok)
    /\ UNCHANGED <<activeSymbol, updates, connectionStatus, errorMessage, alertError,
                   notificationAllowed, isDbReady, lifeVars, flushVars, connVars,
                   dbRef, price_updates, sqlite_sequence, notified>>

(* loadAlerts: the SELECT has run *)
LoadAlertsDone(t, ok, tie) ==
    /\ Idle
    /\ t \in InFlight /\ t.kind = "loadAlerts"
    /\ alerts' = IF ok THEN setState(alerts, loadedAlerts(t.symbol, tie)) ELSE alerts
    /\ tasks' = finish(tasks, t)
    /\ lastOp' = OpOf("loadAlerts", t.symbol, Stale(t.symbol), NoUpdate, {}, ok)
    /\ UNCHANGED <<activeSymbol, updates, connectionStatus, errorMessage, alertError,
                   notificationAllowed, isDbReady, lifeVars, flushVars, connVars,
                   dbVars, notified>>

(* loadCachedUpdates: the SELECT has run *)
LoadCachedDone(t, ok, tie) ==
    /\ Idle
    /\ t \in InFlight /\ t.kind = "loadCached"
    /\ IF ok
       THEN /\ updates' = setState(updates, loadedUpdates(t.symbol, tie))
            /\ errorMessage' = setState(errorMessage, NoError)
       ELSE /\ errorMessage' = setState(errorMessage, CacheMsg)
            /\ UNCHANGED updates
    /\ tasks' = finish(tasks, t)
    /\ lastOp' = OpOf("loadCached", t.symbol, Stale(t.symbol), NoUpdate, {}, ok)
    /\ UNCHANGED <<activeSymbol, connectionStatus, alerts, alertError,
                   notificationAllowed, isDbReady, lifeVars, flushVars, connVars,
                   dbVars, notified>>

----------------------------------------------------------------------------
(* Alert editing, lines 475-525 *)

StorageMsg == "Storage not ready yet."
PriceMsg == "Enter a valid price greater than zero."
SaveMsg == "Failed to save alert."

Directions == {"above", "below"}
PriceTexts == {NumText(p) : p \in Prices} \cup {NumText(0), Minus(1), Garbage}

(* A slip: the test is price < 0 *)
HandleSaveAlertAcceptsZero(direction, text) ==
    LET price == Number(text) IN
    /\ Idle /\ mounted
    /\ IF dbRef = NULL
       THEN /\ alertError' = StorageMsg
            /\ UNCHANGED tasks
       ELSE IF price.nan \/ price.v < 0
       THEN /\ alertError' = PriceMsg
            /\ UNCHANGED tasks
       ELSE /\ tasks' = spawn(tasks, SaveTask(activeSymbol, direction, price.v))
            /\ UNCHANGED alertError
    /\ lastOp' = [op |-> "saveAlert", sym |-> activeSymbol, stale |-> FALSE,
                  update |-> NoUpdate, ids |-> {},
                  ok |-> dbRef # NULL /\ ~price.nan /\ price.v >= 0, text |-> text]
    /\ UNCHANGED <<activeSymbol, updates, connectionStatus, errorMessage, alerts,
                   notificationAllowed, isDbReady, lifeVars, flushVars, connVars,
                   dbVars, notified>>

(* handleSaveAlert up to its first await *)
HandleSaveAlert(direction, text) ==
    LET price == Number(text) IN
    /\ Idle /\ mounted
    /\ IF dbRef = NULL
       THEN /\ alertError' = StorageMsg
            /\ UNCHANGED tasks
       ELSE IF price.nan \/ price.v <= 0
       THEN /\ alertError' = PriceMsg
            /\ UNCHANGED tasks
       ELSE /\ tasks' = spawn(tasks, SaveTask(activeSymbol, direction, price.v))
            /\ UNCHANGED alertError
    /\ lastOp' = [op |-> "saveAlert", sym |-> activeSymbol, stale |-> FALSE,
                  update |-> NoUpdate, ids |-> {},
                  ok |-> dbRef # NULL /\ ~price.nan /\ price.v > 0, text |-> text]
    /\ UNCHANGED <<activeSymbol, updates, connectionStatus, errorMessage, alerts,
                   notificationAllowed, isDbReady, lifeVars, flushVars, connVars,
                   dbVars, notified>>

(* handleSaveAlert: the INSERT has run; the call is tagged with the rowid   *)
(* of the row it inserted                                                  *)
SaveInsert(t, ok) ==
    /\ Idle
    /\ t \in InFlight /\ t.kind = "save" /\ t.pc = "insert"
    /\ IF ok
       THEN /\ insertAlert(t.symbol, t.direction, t.price)
            /\ tasks' = become(tasks, t, [t EXCEPT !.pc = "prune",
                                                   !.id = sqlite_sequence.price_alerts + 1])
            /\ UNCHANGED alertError
       ELSE /\ alertError' = setState(alertError, SaveMsg)
            /\ tasks' = finish(tasks, t)
            /\ UNCHANGED <<price_alerts, sqlite_sequence>>
    /\ lastOp' = OpOf("saveInsert", t.symbol, Stale(t.symbol), NoUpdate,
                      {sqlite_sequence.price_alerts + 1}, ok)
    /\ UNCHANGED <<activeSymbol, updates, connectionStatus, errorMessage, alerts,
                   notificationAllowed, isDbReady, lifeVars, flushVars, connVars,
                   dbRef, price_updates, notified>>

(* handleSaveAlert: the pruning DELETE has run; loadAlerts follows *)
SavePrune(t, ok) ==
    /\ Idle
    /\ t \in InFlight /\ t.kind = "save" /\ t.pc = "prune"
    /\ IF ok
       THEN /\ pruneAlerts(t.symbol, ALERT_MAX_ITEMS)
            /\ IF dbRef = NULL
               THEN /\ alerts' = setState(alerts, <<>>)
                    /\ alertError' = setState(alertError, NoError)
                    /\ tasks' = finish(tasks, t)
               ELSE /\ tasks' = become(tasks, t, [t EXCEPT !.pc = "reload"])
                    /\ UNCHANGED <<alerts, alertError>>
       ELSE /\ alertError' = setState(alertError, SaveMsg)
            /\ tasks' = finish(tasks, t)
            /\ UNCHANGED <<price_alerts, alerts>>
    /\ lastOp' = OpOf("savePrune", t.symbol, Stale(t.symbol), NoUpdate, {t.id}, ok)
    /\ UNCHANGED <<activeSymbol, updates, connectionStatus, errorMessage,
                   notificationAllowed, isDbReady, lifeVars, flushVars, connVars,
                   dbRef, price_updates, sqlite_sequence, notified>>

(* handleSaveAlert: loadAlerts has returned; the modal is closed *)
SaveReload(t, ok, tie) ==
    /\ Idle
    /\ t \in InFlight /\ t.kind = "save" /\ t.pc = "reload"
    /\ alerts' = IF ok THEN setState(alerts, loadedAlerts(t.symbol, tie)) ELSE alerts
    /\ alertError' = setState(alertError, NoError)
    /\ tasks' = finish(tasks, t)
    /\ lastOp' = OpOf("saveReload", t.symbol, Stale(t.symbol), NoUpdate, {}, ok)
    /\ UNCHANGED <<activeSymbol, updates, connectionStatus, errorMessage,
                   notificationAllowed, isDbReady, lifeVars, flushVars, connVars,
                   dbVars, notified>>

(* handleRemoveAlert up to its await, for a row of the displayed list *)
HandleRemoveAlert(alertId) ==
    /\ Idle /\ mounted
    /\ tasks' = IF dbRef = NULL THEN tasks
                ELSE spawn(tasks, RemoveTask(activeSymbol, ParseId(alertId)))
    /\ lastOp' = OpOf("removeAlert", activeSymbol, FALSE, NoUpdate, {ParseId(alertId)},
                      dbRef # NULL)
    /\ UNCHANGED <<reactVars, lifeVars, flushVars, connVars, dbVars, notified>>

(* handleRemoveAlert: the DELETE has run; loadAlerts follows *)
RemoveDelete(t, ok) ==
    /\ Idle
    /\ t \in InFlight /\ t.kind = "remove"
    /\ IF ok
       THEN /\ deleteAlert(t.id)
            /\ startLoadAlerts(t, t.symbol)
       ELSE /\ tasks' = finish(tasks, t)
            /\ UNCHANGED <<price_alerts, alerts>>
    /\ lastOp' = OpOf("removeDelete", t.symbol, Stale(t.symbol), NoUpdate, {t.id}, ok)
    /\ UNCHANGED <<activeSymbol, updates, connectionStatus, errorMessage, alertError,
                   notificationAllowed, isDbReady, lifeVars, flushVars, connVars,
                   dbRef, price_updates, sqlite_sequence, notified>>

----------------------------------------------------------------------------
(* Start-up work, lines 143-172 and 545-593 *)

(* initializeDbAsync: openDatabaseAsync has settled *)
DbOpen(ok) ==
    LET t == Task("dbinit", "open", <<>>) IN
    /\ Idle
    /\ t \in InFlight
    /\ IF ok /\ mounted
       THEN /\ dbRef' = DB
            /\ tasks' = become(tasks, t, [t EXCEPT !.pc = "create"])
            /\ UNCHANGED errorMessage
       ELSE /\ errorMessage' = IF ok THEN errorMessage ELSE setState(errorMessage, CacheMsg)
            /\ tasks' = finish(tasks, t)
            /\ UNCHANGED dbRef
    /\ lastOp' = OpOf("dbOpen", <<>>, FALSE, NoUpdate, {}, ok)
    /\ UNCHANGED <<activeSymbol, updates, connectionStatus, alerts, alertError,
                   notificationAllowed, isDbReady, lifeVars, flushVars, connVars,
                   price_updates, price_alerts, sqlite_sequence, notified>>

(* initializeDbAsync: both CREATE TABLE statements have run; isDbReady     *)
(* changes, so the reload effect is flushed.                               *)
DbCreate(ok) ==
    LET t == Task("dbinit", "create", <<>>) IN
    /\ Idle
    /\ t \in InFlight
    /\ tasks' = finish(tasks, t)
    /\ IF ok /\ mounted
       THEN /\ isDbReady' = TRUE
            /\ phase' = "setup"
            /\ dirty' = {"reload"}
            /\ UNCHANGED errorMessage
       ELSE /\ errorMessage' = IF ok THEN errorMessage ELSE setState(errorMessage, CacheMsg)
            /\ UNCHANGED <<isDbReady, phase, dirty>>
    /\ lastOp' = OpOf("dbCreate", <<>>, FALSE, NoUpdate, {}, ok)
    /\ UNCHANGED <<activeSymbol, updates, connectionStatus, alerts, alertError,
                   notificationAllowed, lifeVars, connVars, dbVars, notified>>

(* ensurePermissionsAsync has an answer.  persistAndCheckUpdate depends on *)
(* notificationAllowed and the session effect on persistAndCheckUpdate, so *)
(* a changed answer flushes the session effect.                            *)
PermissionResult(granted) ==
    LET t == Task("permissions", "get", <<>>) IN
    /\ Idle
    /\ t \in InFlight
    /\ (mounted /\ hasToken /\ granted # notificationAllowed) => HasFreeSocket
    /\ tasks' = finish(tasks, t)
    /\ notificationAllowed' = setState(notificationAllowed, granted)
    /\ IF mounted /\ granted # notificationAllowed
       THEN /\ phase' = "cleanup"
            /\ dirty' = {"session"}
       ELSE UNCHANGED <<phase, dirty>>
    /\ lastOp' = OpOf("permissions", activeSymbol, FALSE, NoUpdate, {}, granted)
    /\ UNCHANGED <<activeSymbol, updates, connectionStatus, errorMessage, alerts,
                   alertError, isDbReady, lifeVars, connVars, dbVars, notified>>

----------------------------------------------------------------------------
(* The state once the component has mounted and its effects have run: the  *)
(* permission request and the storage initialisation are in flight, the    *)
(* reload effect found isDbReady false, the session effect has connected   *)
(* or, without a token, has put the screen in the error state.  The tables *)
(* hold what earlier runs of the app left in priceUpdates.db.              *)

Inputs(frames, switches, drops, edits, faults) ==
    [frames |-> frames, switches |-> switches, drops |-> drops, edits |-> edits,
     faults |-> faults]

Mounted(token, history, rules, inputs) ==
    /\ activeSymbol = DEFAULT_SYMBOL
    /\ updates = <<>>
    /\ alerts = <<>>
    /\ alertError = NoError
    /\ notificationAllowed = FALSE
    /\ isDbReady = FALSE
    /\ hasToken = token
    /\ mounted = TRUE
    /\ phase = "idle"
    /\ dirty = {}
    /\ connectionStatus = IF token THEN "connecting" ELSE "error"
    /\ errorMessage = IF token THEN NoError ELSE TokenMsg
    /\ sockets = [s \in SockIds |->
                    IF token /\ s = 1
                    THEN [state |-> "connecting", sym |-> DEFAULT_SYMBOL,
                          manualClose |-> FALSE, closeRequested |-> FALSE,
                          sent |-> <<>>, allowed |-> FALSE]
                    ELSE FreeSocket]
    /\ wsRef = IF token THEN 1 ELSE NULL
    /\ timers = [t \in TimerIds |-> FreeTimer]
    /\ reconnectTimerRef = NULL
    /\ dbRef = NULL
    /\ price_updates = history
    /\ price_alerts = rules
    /\ sqlite_sequence = [price_updates |-> Cardinality(history),
                          price_alerts |-> Cardinality(rules)]
    /\ tasks = SetToBag({Task("dbinit", "open", <<>>), Task("permissions", "get", <<>>)})
    /\ notified = EmptyNotified
    /\ lastOp = Op("mount", <<>>, FALSE)
    /\ left = inputs

----------------------------------------------------------------------------
(* Bounds on what the environment supplies during a run *)

MaxFrames == 1
MaxSwitches == 1
MaxEdits == 1

spend(kind) == left[kind] > 0 /\ left' = [left EXCEPT ![kind] = @ - 1]

(* A call that fails spends a fault *)
outcome(ok) == IF ok THEN UNCHANGED left ELSE spend("faults")

Singles(elems) == {DataFrame(<<e>>) : e \in elems}

----------------------------------------------------------------------------
(* The session while storage is still initialising: symbol switches,       *)
(* transport events, reconnects, the permission answer, unmount, and a     *)
(* bounded number of frames (no handle yet, so nothing is persisted).      *)

SessionTrades == {Trade(Sym(s), Num(1), Num(1)) : s \in Symbols}

Init == \E token \in BOOLEAN : Mounted(token, {}, {}, Inputs(MaxFrames, 0, 0, 0, 0))

SessionNext ==
    \/ (\E raw \in RawSymbols : ApplySymbol(raw)) /\ UNCHANGED left
    \/ Unmount /\ UNCHANGED left
    \/ Cleanup /\ UNCHANGED left
    \/ Setup /\ UNCHANGED left
    \/ (\E s \in SockIds : TransportOpen(s)) /\ UNCHANGED left
    \/ (\E s \in SockIds : TransportError(s)) /\ UNCHANGED left
    \/ (\E t \in TimerIds : TimerFire(t)) /\ UNCHANGED left
    \/ (\E granted \in BOOLEAN : PermissionResult(granted)) /\ UNCHANGED left

Next ==
    \/ SessionNext
    \/ (\E s \in SockIds : TransportClose(s, FALSE)) /\ UNCHANGED left
    \/ (\E s \in SockIds, f \in Singles(SessionTrades) : TransportMessage(s, f))
          /\ spend("frames")

Spec == Init /\ [][Next]_vars

(* The same without frames, in an environment that may repeat a socket's   *)
(* close event                                                             *)
NextRepeat ==
    \/ SessionNext
    \/ (\E s \in SockIds : TransportClose(s, TRUE)) /\ UNCHANGED left
    \/ (\E s \in SockIds : RepeatedClose(s)) /\ UNCHANGED left

SpecRepeat == Init /\ [][NextRepeat]_vars

(* The same without frames; a pending setTimeout callback is eventually    *)
(* run by the event loop                                                   *)
NextQuiet ==
    \/ SessionNext
    \/ (\E s \in SockIds : TransportClose(s, FALSE)) /\ UNCHANGED left

SpecFair ==
    /\ Init
    /\ [][NextQuiet]_vars
    /\ WF_vars((\E t \in TimerIds : TimerFire(t)) /\ UNCHANGED left)

----------------------------------------------------------------------------
(* A later moment of a run: storage is initialised, the permission request *)
(* has been answered with `allowed` (a grant re-created the session), the  *)
(* socket of the session is open and subscribed, and the loads of the      *)
(* reload effect have completed or, with `loading`, are still in flight.   *)

Streaming(allowed, loading, history, rules, inputs) ==
    /\ activeSymbol = DEFAULT_SYMBOL
    /\ updates = IF loading THEN <<>>
                 ELSE LET rows == limit(orderBy({r \in history : r.symbol = DEFAULT_SYMBOL},
                                                byTimestampDesc, "asc"), MAX_ITEMS)
                      IN [i \in 1..Len(rows) |->
                             [key |-> <<rows[i].symbol, rows[i].timestamp, i - 1>>,
                              symbol |-> rows[i].symbol, price |-> rows[i].price,
                              timestamp |-> rows[i].timestamp]]
    /\ alerts = IF loading THEN <<>>
                ELSE LET rows == limit(orderBy({r \in rules : r.symbol = DEFAULT_SYMBOL},
                                               byTriggeredPrice, "asc"), ALERT_MAX_ITEMS)
                     IN [i \in 1..Len(rows) |-> AlertThreshold(rows[i])]
    /\ alertError = NoError
    /\ notificationAllowed = allowed
    /\ isDbReady = TRUE
    /\ hasToken = TRUE
    /\ mounted = TRUE
    /\ phase = "idle"
    /\ dirty = {}
    /\ connectionStatus = "open"
    /\ errorMessage = NoError
    /\ sockets = [s \in SockIds |->
                    IF s = 1
                    THEN [state |-> "open", sym |-> DEFAULT_SYMBOL,
                          manualClose |-> FALSE, closeRequested |-> FALSE,
                          sent |-> <<DEFAULT_SYMBOL>>, allowed |-> allowed]
                    ELSE FreeSocket]
    /\ wsRef = 1
    /\ timers = [t \in TimerIds |-> FreeTimer]
    /\ reconnectTimerRef = NULL
    /\ dbRef = DB
    /\ price_updates = history
    /\ price_alerts = rules
    /\ sqlite_sequence = [price_updates |-> Cardinality(history),
                          price_alerts |-> Cardinality(rules)]
    /\ tasks = IF loading
               THEN SetToBag({Task("loadCached", "select", DEFAULT_SYMBOL),
                              Task("loadAlerts", "select", DEFAULT_SYMBOL)})
               ELSE EmptyBag
    /\ notified = EmptyNotified
    /\ lastOp = Op("mount", <<>>, FALSE)
    /\ left = inputs

(* What earlier runs left in the tables *)
SeedHistory == {[id |-> 1, symbol |-> AAPL, price |-> 1, timestamp |-> 1]}

SeedRules ==
    { [id |-> 1, symbol |-> AAPL, direction |-> "above", price |-> 2, triggered |-> FALSE],
      [id |-> 2, symbol |-> AAPL, direction |-> "below", price |-> 2, triggered |-> FALSE],
      [id |-> 3, symbol |-> TSLA, direction |-> "above", price |-> 1, triggered |-> FALSE],
      [id |-> 4, symbol |-> AAPL, direction |-> "below", price |-> 1, triggered |-> TRUE] }

----------------------------------------------------------------------------
(* Switching the symbol while the cached history is loading and a frame    *)
(* arrives                                                                 *)

SwitchTrades == {Trade(Sym(s), Num(1), Num(2)) : s \in Symbols}

SwitchInit ==
    Streaming(TRUE, TRUE, SeedHistory, SeedRules, Inputs(MaxFrames, MaxSwitches, 0, 0, 0))

SwitchNext ==
    \/ (\E raw \in {TSLA, AAPL} : ApplySymbol(raw)) /\ spend("switches")
    \/ Cleanup /\ UNCHANGED left
    \/ Setup /\ UNCHANGED left
    \/ (\E s \in SockIds : TransportOpen(s)) /\ UNCHANGED left
    \/ (\E s \in SockIds : sockets[s].closeRequested /\ TransportClose(s, FALSE))
          /\ UNCHANGED left
    \/ (\E s \in SockIds, f \in Singles(SwitchTrades) : TransportMessage(s, f))
          /\ spend("frames")
    \/ (\E t \in InFlight : PersistInsert(t, TRUE)) /\ UNCHANGED left
    \/ (\E t \in InFlight, tie \in TieOrders : PersistPrune(t, TRUE, tie)) /\ UNCHANGED left
    \/ (\E t \in InFlight : CheckAlerts(t, TRUE)) /\ UNCHANGED left
    \/ (\E t \in InFlight : NotifyDone(t, t.ids)) /\ UNCHANGED left
    \/ (\E t \in InFlight : AlertUpdate(t, TRUE)) /\ UNCHANGED left
    \/ (\E t \in InFlight, tie \in TieOrders : LoadAlertsDone(t, TRUE, tie)) /\ UNCHANGED left
    \/ (\E t \in InFlight, tie \in TieOrders : LoadCachedDone(t, TRUE, tie)) /\ UNCHANGED left

SpecSwitch == SwitchInit /\ [][SwitchNext]_vars

----------------------------------------------------------------------------
(* A burst: one frame carrying several ticks, whose persist and alert      *)
(* chains are then in flight together                                      *)

BurstTrades == {Trade(Sym(AAPL), Num(p), Num(t)) : p \in Prices, t \in Times}

BurstInit ==
    \E allowed \in BOOLEAN :
        Streaming(allowed, FALSE, {}, SeedRules, Inputs(MaxFrames, 0, 0, 0, 0))

BurstNext ==
    \/ (\E s \in SockIds, f \in Frames(BurstTrades) : TransportMessage(s, f))
          /\ spend("frames")
    \/ (\E t \in InFlight : PersistInsert(t, TRUE)) /\ UNCHANGED left
    \/ (\E t \in InFlight, tie \in TieOrders : PersistPrune(t, TRUE, tie)) /\ UNCHANGED left
    \/ (\E t \in InFlight : CheckAlerts(t, TRUE)) /\ UNCHANGED left
    \/ (\E t \in InFlight : \E delivered \in SUBSET t.ids : NotifyDone(t, delivered))
          /\ UNCHANGED left
    \/ (\E t \in InFlight : AlertUpdate(t, TRUE)) /\ UNCHANGED left
    \/ (\E t \in InFlight, tie \in TieOrders : LoadAlertsDone(t, TRUE, tie)) /\ UNCHANGED left

SpecBurst == BurstInit /\ [][BurstNext]_vars

----------------------------------------------------------------------------
(* Alerts: a tick is evaluated while rules are added and removed and the   *)
(* symbol is switched; a notification request may be rejected.  The        *)
(* transport reports nothing but frames here: its other events do not      *)
(* touch the store.                                                        *)

AlertTrades == {Trade(Sym(AAPL), Num(p), Num(1)) : p \in Prices}

AlertsInit ==
    Streaming(TRUE, FALSE, {}, SeedRules,
              Inputs(MaxFrames, MaxSwitches, 0, MaxEdits, 0))

AlertsNext ==
    \/ (\E raw \in {TSLA, AAPL} : ApplySymbol(raw)) /\ spend("switches")
    \/ Cleanup /\ UNCHANGED left
    \/ Setup /\ UNCHANGED left
    \/ (\E s \in SockIds, f \in Singles(AlertTrades) : TransportMessage(s, f))
          /\ spend("frames")
    \/ (\E t \in InFlight : PersistInsert(t, TRUE)) /\ UNCHANGED left
    \/ (\E t \in InFlight, tie \in TieOrders : PersistPrune(t, TRUE, tie)) /\ UNCHANGED left
    \/ (\E t \in InFlight : CheckAlerts(t, TRUE)) /\ UNCHANGED left
    \/ (\E t \in InFlight : \E delivered \in SUBSET t.ids : NotifyDone(t, delivered))
          /\ UNCHANGED left
    \/ (\E t \in InFlight : AlertUpdate(t, TRUE)) /\ UNCHANGED left
    \/ (\E t \in InFlight, tie \in TieOrders : LoadAlertsDone(t, TRUE, tie)) /\ UNCHANGED left
    \/ (\E t \in InFlight, tie \in TieOrders : LoadCachedDone(t, TRUE, tie)) /\ UNCHANGED left
    \/ (\E d \in Directions, text \in PriceTexts : HandleSaveAlert(d, text))
          /\ spend("edits")
    \/ (\E t \in InFlight : SaveInsert(t, TRUE)) /\ UNCHANGED left
    \/ (\E t \in InFlight : SavePrune(t, TRUE)) /\ UNCHANGED left
    \/ (\E t \in InFlight, tie \in TieOrders : SaveReload(t, TRUE, tie)) /\ UNCHANGED left
    \/ (\E a \in range(alerts) : HandleRemoveAlert(a.id)) /\ spend("edits")
    \/ (\E t \in InFlight : RemoveDelete(t, TRUE)) /\ UNCHANGED left

SpecAlerts == AlertsInit /\ [][AlertsNext]_vars


----------------------------------------------------------------------------
(* Properties of the session *)

(* C1: at most one reconnect timer is pending in every state; a non-manual *)
(* close leaves exactly one pending; a close event that arrives while one  *)
(* is pending changes no timer; and the expiry of a timer removes it and   *)
(* starts exactly one connect attempt (one new socket, in 'connecting').   *)
C1_SingleReconnectTimer ==
    [][ /\ Cardinality(pendingTimers') <= 1
        /\ (lastOp'.op \in {"close", "closeAgain"} /\ ~lastOp'.stale)
              => Cardinality(pendingTimers') = 1
        /\ (lastOp'.op \in {"close", "closeAgain"} /\ pendingTimers # {})
              => timers' = timers /\ reconnectTimerRef' = reconnectTimerRef
        /\ lastOp'.op = "timer"
              => /\ pendingTimers' = {}
                 /\ Cardinality(liveSockets' \ liveSockets) = 1
                 /\ \A s \in liveSockets' \ liveSockets :
                        sockets'[s].state = "connecting" /\ wsRef' = s
                 /\ connectionStatus' = "connecting"
      ]_vars

(* C1 witness: a second close event of the session has arrived while the   *)
(* reconnect timer of the first was pending, and one timer is pending.     *)
C1_CloseWhilePending ==
    /\ lastOp.op = "closeAgain" /\ ~lastOp.stale /\ ~lastOp.ok
    /\ Cardinality(pendingTimers) = 1

(* C2: the teardown of a session leaves no reconnect timer pending and the *)
(* transport reference cleared; the close event of a transport that the    *)
(* teardown asked to close schedules no timer, opens no socket and leaves  *)
(* the references and the status as they are.                              *)
C2_TeardownIsFinal ==
    [][ /\ (phase = "cleanup" /\ "session" \in dirty)
              => pendingTimers' = {} /\ reconnectTimerRef' = NULL /\ wsRef' = NULL
        /\ \A s \in SockIds :
              (lastOp'.op = "close" /\ Live(s) /\ ~Live(s)' /\ sockets[s].closeRequested)
                  => /\ timers' = timers
                     /\ reconnectTimerRef' = reconnectTimerRef
                     /\ wsRef' = wsRef
                     /\ liveSockets' = liveSockets \ {s}
                     /\ connectionStatus' = connectionStatus
      ]_vars

(* C2 witness: the close event of a torn-down transport has been delivered *)
(* after a symbol switch, and no timer is pending.                         *)
C2_StaleCloseDelivered ==
    /\ lastOp.op = "close" /\ lastOp.stale
    /\ mounted /\ activeSymbol # DEFAULT_SYMBOL
    /\ pendingTimers = {}

(* The session's latest connect attempt was started by the reconnect timer *)
Reconnecting ==
    /\ lastOp.op = "timer"
    /\ connectionStatus = "connecting"
    /\ wsRef # NULL
    /\ sockets[wsRef].state = "connecting"
    /\ sockets[wsRef].sym = activeSymbol
    /\ ~sockets[wsRef].manualClose

(* C3: a non-manual transport close is eventually followed by a connect    *)
(* attempt for the session's symbol, unless a teardown of the session      *)
(* begins first; the state graph has no bound on how often this repeats.   *)
C3_CloseLeadsToConnect ==
    (lastOp.op = "close" /\ ~lastOp.stale) ~> (Reconnecting \/ phase # "idle")

(* C3 witness: a reconnect attempt is under way whose socket is not the    *)
(* first of the run, so a connection failed before it.                     *)
C3_ReconnectUnderWay == Reconnecting /\ mounted /\ hasToken

(* C4, with a token configured: a switch to a different symbol empties the *)
(* buffer and flushes the session effect; the cleanup asks every live      *)
(* transport to close and leaves no timer pending; the effect body opens   *)
(* one new socket in 'connecting' for the new active symbol; a socket that *)
(* opens subscribes to its own session's symbol; and at most one transport *)
(* that has not been asked to close exists in every state.                 *)
C4_SwitchRestartsSession ==
    /\ Cardinality(activeSockets) <= 1
    /\ [][ /\ Cardinality(activeSockets') <= 1
           /\ (lastOp'.op = "applySymbol" /\ activeSymbol' # activeSymbol)
                 => /\ updates' = <<>>
                    /\ phase' = "cleanup"
                    /\ dirty' = {"reload", "session"}
           /\ (hasToken /\ phase = "cleanup" /\ "session" \in dirty)
                 => /\ pendingTimers' = {}
                    /\ activeSockets' = {}
           /\ (hasToken /\ phase = "setup" /\ dirty = {"reload", "session"})
                 => /\ connectionStatus' = "connecting"
                    /\ activeSockets' = {wsRef'}
                    /\ wsRef' \notin liveSockets
                    /\ sockets'[wsRef'].state = "connecting"
                    /\ sockets'[wsRef'].sym = activeSymbol
                    /\ updates' = <<>>
           /\ \A s \in SockIds :
                 (Live(s)' /\ sockets'[s].sent # sockets[s].sent)
                    => sockets'[s].sent = <<sockets'[s].sym>>
         ]_vars

(* C4 witness: after a switch the new session is connecting for the new    *)
(* symbol while the old symbol's transport, asked to close, still exists.  *)
C4_SwitchedWhileOldOpen ==
    /\ lastOp.op = "setup" /\ hasToken
    /\ activeSymbol # DEFAULT_SYMBOL
    /\ connectionStatus = "connecting"
    /\ updates = <<>>
    /\ \E s \in liveSockets : sockets[s].closeRequested /\ sockets[s].sym # activeSymbol

(* C4 as stated, for every configuration: the effect body that follows a   *)
(* symbol switch starts a session in 'connecting'.                         *)
C4_SwitchAlwaysConnects ==
    [][ (phase = "setup" /\ dirty = {"reload", "session"})
           => connectionStatus' = "connecting" /\ wsRef' # NULL ]_vars


----------------------------------------------------------------------------
(* Properties of the buffer and of the alert rules *)

(* C5: every entry of the tick buffer has the active symbol, in every      *)
(* reachable state, also when a cached-history load or a frame of a        *)
(* superseded session completes after a switch.                            *)
C5_BufferHoldsActiveSymbol ==
    \A i \in 1..Len(updates) : updates[i].symbol = activeSymbol

(* The steps of persistAndCheckUpdate *)
PersistSteps == {"insert", "prune", "checkAlerts", "notify", "alertUpdate"}

(* C6: a step of the persist and alert chain of a tick whose symbol is no  *)
(* longer the active one leaves the buffer as it is, leaves every stored   *)
(* rule of the active symbol as it is, and requests and delivers no        *)
(* notification for such a rule.                                           *)
C6_StaleCallbackSparesNewSymbol ==
    [][ (lastOp'.op \in PersistSteps /\ lastOp'.stale)
           => /\ updates' = updates
              /\ \A r \in price_alerts :
                    r.symbol = activeSymbol
                       => /\ r \in price_alerts'
                          /\ count(notified'.requested, r.id) = count(notified.requested, r.id)
                          /\ count(notified'.delivered, r.id) = count(notified.delivered, r.id)
      ]_vars

(* C6 witness: the UPDATE of an alert evaluation started for the old       *)
(* symbol has marked a rule after the switch to the new symbol.            *)
C6_StaleEvaluationCompleted ==
    /\ lastOp.op = "alertUpdate" /\ lastOp.stale /\ lastOp.ok
    /\ lastOp.ids # {}
    /\ \E r \in price_alerts : r.symbol = activeSymbol /\ ~r.triggered

(* C7: no rule has a notification delivered more than once *)
C7_NotifiedAtMostOnce ==
    \A id \in BagToSet(notified.delivered) : count(notified.delivered, id) <= 1

(* C8: a rule for which notification delivery has been requested is        *)
(* already marked fired in the store.                                      *)
C8_MarkedBeforeRequested ==
    \A id \in BagToSet(notified.requested) :
        \E r \in price_alerts : r.id = id /\ r.triggered

(* C9: in every step a stored rule stays as it is, or is deleted (by       *)
(* handleRemoveAlert or by the pruning of handleSaveAlert), or has its     *)
(* flag set by the mark-fired UPDATE; a new row gets an id never used      *)
(* before, so a triggered flag never reverts for any rule id.              *)
C9_TriggeredIsALatch ==
    [][ /\ \A r \in price_alerts :
              \/ r \in price_alerts'
              \/ /\ \A q \in price_alerts' : q.id # r.id
                 /\ lastOp'.op \in {"removeDelete", "savePrune"}
              \/ /\ ~r.triggered
                 /\ {q \in price_alerts' : q.id = r.id} = {[r EXCEPT !.triggered = TRUE]}
                 /\ lastOp'.op = "alertUpdate" /\ r.id \in lastOp'.ids
        /\ \A q \in price_alerts' :
              (\A r \in price_alerts : r.id # q.id)
                 => /\ q.id > sqlite_sequence.price_alerts
                    /\ q.id <= sqlite_sequence'.price_alerts
                    /\ ~q.triggered
        /\ sqlite_sequence'.price_alerts >= sqlite_sequence.price_alerts
      ]_vars

(* C9 witness: a rule fired by a tick of this run is still marked after a  *)
(* later save of a new rule, next to the rule that had fired before.       *)
C9_FiredRuleSurvivesSave ==
    /\ lastOp.op = "saveInsert" /\ lastOp.ok
    /\ \E r \in price_alerts : r.triggered /\ r.id \in BagToSet(notified.requested)
    /\ \E r \in price_alerts : r.triggered /\ r.id \notin BagToSet(notified.requested)

(* The condition of the claim, written out *)
Fires(direction, threshold, price) ==
    \/ direction = "above" /\ price >= threshold
    \/ direction = "below" /\ price <= threshold

(* C10: an evaluation selects exactly the un-fired rules of the tick's     *)
(* symbol whose condition holds (above: price >= threshold, below:         *)
(* price <= threshold); its UPDATE sets the flag of all of them in one     *)
(* step and of no other rule; and no rule whose condition is false for the *)
(* tick ever has its flag set.                                             *)
C10_FiresIffConditionHolds ==
    [][ /\ (lastOp'.op = "checkAlerts" /\ lastOp'.ok)
              => lastOp'.ids =
                    {r.id : r \in {x \in price_alerts :
                                      /\ x.symbol = lastOp'.update.symbol
                                      /\ ~x.triggered
                                      /\ Fires(x.direction, x.price, lastOp'.update.price)}}
        /\ (lastOp'.op = "alertUpdate" /\ lastOp'.ok)
              => price_alerts' =
                    {IF r.id \in lastOp'.ids THEN [r EXCEPT !.triggered = TRUE] ELSE r :
                        r \in price_alerts}
        /\ \A r \in price_alerts, q \in price_alerts' :
              (q.id = r.id /\ ~r.triggered /\ q.triggered)
                 => /\ lastOp'.op = "alertUpdate"
                    /\ r.symbol = lastOp'.update.symbol
                    /\ Fires(r.direction, r.price, lastOp'.update.price)
      ]_vars

(* C10 witness: a tick at the threshold of an `above` rule and of a        *)
(* `below` rule has fired both, and one UPDATE has marked both.            *)
C10_EqualPriceFiredBoth ==
    /\ lastOp.op = "alertUpdate" /\ lastOp.ok
    /\ \E a, b \in price_alerts :
          /\ a.direction = "above" /\ b.direction = "below"
          /\ a.price = lastOp.update.price /\ b.price = lastOp.update.price
          /\ {a.id, b.id} \subseteq lastOp.ids
          /\ a.triggered /\ b.triggered


----------------------------------------------------------------------------
(* Properties of the evaluation's error handling and of the buffer *)

(* C11: an evaluation that matched rules goes on to its UPDATE with all of *)
(* them, whether notifications are not allowed or any of the requests is   *)
(* rejected; the UPDATE marks every one of them; and once nothing is in    *)
(* flight every rule whose condition a tick of the run satisfied is marked *)
(* in the store.                                                           *)
C11_MarkedDespiteNotification ==
    /\ [](tasks = EmptyBag
            => \A r \in price_alerts :
                  (/\ r.symbol = activeSymbol
                   /\ \E i \in 1..Len(updates) :
                         Fires(r.direction, r.price, updates[i].price))
                     => r.triggered)
    /\ [][ /\ (lastOp'.op = "checkAlerts" /\ lastOp'.ids # {})
                 => \E t \in BagToSet(tasks') :
                       /\ t.update = lastOp'.update /\ t.ids = lastOp'.ids
                       /\ t.pc = IF t.allowed THEN "notify" ELSE "mark"
           /\ lastOp'.op = "notify"
                 => \E t \in InFlight :
                       /\ t.pc = "notify" /\ t.update = lastOp'.update
                       /\ lastOp'.ids \subseteq t.ids
                       /\ tasks' = become(tasks, t, [t EXCEPT !.pc = "mark"])
           /\ (lastOp'.op = "alertUpdate" /\ lastOp'.ok)
                 => \A r \in price_alerts :
                       r.id \in lastOp'.ids => [r EXCEPT !.triggered = TRUE] \in price_alerts'
         ]_vars

(* C11 witness: of two rules matched by one tick the notification of one   *)
(* was rejected and that of the other delivered, and both are marked.      *)
C11_MarkedAfterRejection ==
    /\ lastOp.op = "alertUpdate" /\ lastOp.ok
    /\ \E a, b \in price_alerts :
          /\ {a.id, b.id} \subseteq lastOp.ids
          /\ a.triggered /\ b.triggered
          /\ count(notified.requested, a.id) = 1 /\ count(notified.delivered, a.id) = 0
          /\ count(notified.delivered, b.id) = 1


----------------------------------------------------------------------------
(* A full history: earlier runs left more rows of the default symbol than  *)
(* the buffer holds.  The cached history is loading while a frame arrives  *)
(* and the symbol is switched.                                             *)

MaxHistory == 21

FullHistory ==
    {[id |-> i, symbol |-> AAPL, price |-> 1, timestamp |-> i] : i \in 1..MaxHistory}

(* A tick that repeats the newest stored one, and a newer one *)
BufferTrades ==
    {Trade(Sym(AAPL), Num(1), Num(MaxHistory)), Trade(Sym(AAPL), Num(2), Num(MaxHistory + 1))}

BufferInit ==
    Streaming(FALSE, TRUE, FullHistory, {}, Inputs(MaxFrames, MaxSwitches, 0, 0, 0))

BufferNext ==
    \/ (\E raw \in {TSLA, AAPL} : ApplySymbol(raw)) /\ spend("switches")
    \/ Cleanup /\ UNCHANGED left
    \/ Setup /\ UNCHANGED left
    \/ (\E s \in SockIds : TransportOpen(s)) /\ UNCHANGED left
    \/ (\E s \in SockIds, f \in Singles(BufferTrades) : TransportMessage(s, f))
          /\ spend("frames")
    \/ (\E t \in InFlight : PersistInsert(t, TRUE)) /\ UNCHANGED left
    \/ (\E t \in InFlight, tie \in TieOrders : PersistPrune(t, TRUE, tie)) /\ UNCHANGED left
    \/ (\E t \in InFlight : CheckAlerts(t, TRUE)) /\ UNCHANGED left
    \/ (\E t \in InFlight, tie \in TieOrders : LoadAlertsDone(t, TRUE, tie)) /\ UNCHANGED left
    \/ (\E t \in InFlight, tie \in TieOrders : LoadCachedDone(t, TRUE, tie)) /\ UNCHANGED left

SpecBuffer == BufferInit /\ [][BufferNext]_vars

(* C12: the tick buffer never holds more than MAX_ITEMS entries *)
C12_BufferWithinCapacity == Len(updates) <= MAX_ITEMS

(* C12 witness: a live tick has been accepted into a buffer that a load    *)
(* had filled, and the buffer holds exactly MAX_ITEMS entries.             *)
C12_TickIntoFullBuffer ==
    /\ lastOp.op = "message"
    /\ Len(updates) = MAX_ITEMS
    /\ updates[1].timestamp >= MaxHistory
    /\ updates[2].timestamp < updates[1].timestamp

(* C13: no two entries of the tick buffer have the same symbol, timestamp  *)
(* and price.                                                              *)
C13_NoDuplicateTicks ==
    \A i, j \in 1..Len(updates) :
        (/\ updates[i].symbol = updates[j].symbol
         /\ updates[i].timestamp = updates[j].timestamp
         /\ updates[i].price = updates[j].price) => i = j

----------------------------------------------------------------------------
(* Frames of every shape on a running stream: batches that mix the         *)
(* session's symbol with another one, elements that are not trade objects, *)
(* fields that do not coerce, frames that do not parse or carry no data,   *)
(* around one symbol switch.                                               *)

FrameTrades ==
    { Trade(Sym(AAPL), Num(1), Num(2)),
      Trade(Sym(TSLA), Num(1), Num(2)),
      Trade(Sym(AAPL), NumText(2), Num(2)),
      Trade(NoSym, Num(1), Num(1)),
      Trade(Sym(AAPL), Garbage, Num(1)),
      Trade(Sym(AAPL), Num(1), Undefined),
      NumberElement,
      NullElement }

FramesInit ==
    Streaming(FALSE, FALSE, SeedHistory, {}, Inputs(MaxFrames, MaxSwitches, 0, 0, 0))

FramesNext ==
    \/ (\E raw \in {TSLA, AAPL} : ApplySymbol(raw)) /\ spend("switches")
    \/ Cleanup /\ UNCHANGED left
    \/ Setup /\ UNCHANGED left
    \/ (\E s \in SockIds : TransportOpen(s)) /\ UNCHANGED left
    \/ (\E s \in SockIds, f \in Frames(FrameTrades) : TransportMessage(s, f))
          /\ spend("frames")
    \/ (\E t \in InFlight : PersistInsert(t, TRUE)) /\ UNCHANGED left
    \/ (\E t \in InFlight, tie \in TieOrders : PersistPrune(t, TRUE, tie)) /\ UNCHANGED left
    \/ (\E t \in InFlight : CheckAlerts(t, TRUE)) /\ UNCHANGED left
    \/ (\E t \in InFlight, tie \in TieOrders : LoadAlertsDone(t, TRUE, tie)) /\ UNCHANGED left
    \/ (\E t \in InFlight, tie \in TieOrders : LoadCachedDone(t, TRUE, tie)) /\ UNCHANGED left

SpecFrames == FramesInit /\ [][FramesNext]_vars

(* A trade object that names a symbol other than S *)
Foreign(trade, S) ==
    trade.kind = "object" /\ trade.s.t = "string" /\ trade.s.v # <<>> /\ trade.s.v # S

(* C14: when a frame reaches the transport of a session for symbol S, the  *)
(* elements that name another symbol contribute nothing: a frame made of   *)
(* such elements only leaves the tick buffer, the stores and the calls in  *)
(* flight as they were, and in any frame every entry that is new in the    *)
(* buffer and every insert-and-evaluate call that is started is for S.     *)
C14_OtherSymbolIgnored ==
    [][ (lastOp'.op = "message" /\ lastOp'.frame.kind = "data") =>
          LET S == lastOp'.sym
              batch == lastOp'.frame.data
          IN /\ (\A i \in 1..Len(batch) : Foreign(batch[i], S)) =>
                    UNCHANGED <<updates, tasks, price_updates, price_alerts>>
             /\ \A i \in 1..Len(updates') :
                    updates'[i].symbol # S =>
                        \E j \in 1..Len(updates) : updates[j] = updates'[i]
             /\ \A t \in BagToSet(tasks') :
                    count(tasks', t) > count(tasks, t) =>
                        t.kind = "persist" /\ t.update.symbol = S
      ]_vars

(* C14 witness: a batch that holds an element for another symbol and an    *)
(* element for the session's symbol has been handled.                      *)
C14_MixedBatchHandled ==
    /\ lastOp.op = "message" /\ lastOp.frame.kind = "data"
    /\ \E i \in 1..Len(lastOp.frame.data) : Foreign(lastOp.frame.data[i], lastOp.sym)
    /\ \E i \in 1..Len(lastOp.frame.data) : accepted(lastOp.frame.data[i], lastOp.sym)
    /\ updates # <<>> /\ updates[1].symbol = lastOp.sym /\ updates[1].timestamp = 2

(* The valid elements of a batch for symbol S, as buffer entries, in array *)
(* order.                                                                  *)
ValidUpdates(batch, S) ==
    LET valid(trade) == accepted(trade, S)
        kept == SelectSeq(batch, valid)
    IN [i \in 1..Len(kept) |-> toUpdate(kept[i])]

(* C15: a batch puts every one of its valid elements into the tick buffer, *)
(* in array order, and starts an insert-and-evaluate call for each,        *)
(* whatever other elements the batch holds.                                *)
C15_EveryValidElementAccepted ==
    [][ (lastOp'.op = "message" /\ lastOp'.frame.kind = "data") =>
          LET news == ValidUpdates(lastOp'.frame.data, lastOp'.sym)
          IN /\ updates' = prependAll(updates, news)
             /\ \A i \in 1..Len(news) :
                    \E t \in BagToSet(tasks') :
                        /\ t.kind = "persist" /\ t.update = news[i]
                        /\ count(tasks', t) > count(tasks, t)
      ]_vars

(* C16: a frame that does not parse, or whose payload has no array of      *)
(* trades, is handled to the end and leaves the connection status, the     *)
(* tick buffer, the reconnect timer, the transports, both stores and the   *)
(* calls in flight as they were.                                           *)
C16_UnreadableFrameChangesNothing ==
    [][ (lastOp'.op = "message" /\ lastOp'.frame.kind \in {"malformed", "nodata"}) =>
          UNCHANGED <<connectionStatus, updates, timers, reconnectTimerRef, sockets, wsRef,
                      price_updates, price_alerts, sqlite_sequence, tasks>>
      ]_vars

(* C16 witness: a frame that does not parse has been handled on an open    *)
(* stream whose buffer holds a tick.                                       *)
C16_UnreadableFrameHandled ==
    /\ lastOp.op = "message" /\ lastOp.frame = MalformedFrame
    /\ connectionStatus = "open"
    /\ updates # <<>>

----------------------------------------------------------------------------
(* Transport events of the session                                         *)

Scheduled(t) == timers[t].state # "pending" /\ timers'[t].state = "pending"
Connecting(s) == sockets[s].state # "connecting" /\ sockets'[s].state = "connecting"

CurrentTransportOpen == wsRef # NULL /\ sockets[wsRef].state = "open"

(* C18: every transport-open event sends exactly one subscribe message,    *)
(* naming the symbol of the session that created the transport, and sets   *)
(* the status to 'open'; and between flushes the status of a mounted       *)
(* screen is 'open' only when the current transport has opened.            *)
C18_OpenOnlyAfterCurrentOpens ==
    /\ [](Idle /\ mounted /\ connectionStatus = "open" => CurrentTransportOpen)
    /\ [][ \A s \in SockIds :
              (lastOp'.op = "open" /\ sockets[s].state = "connecting"
                 /\ sockets'[s].state = "open") =>
                  /\ sockets'[s].sent = Append(sockets[s].sent, sockets[s].sym)
                  /\ mounted => connectionStatus' = "open"
         ]_vars

(* C19: without a token no transport exists, no subscribe message has been *)
(* sent, no reconnect timer is pending and the status is 'error', in every *)
(* state, whatever symbols are applied.                                    *)
C19_NoTokenNoSession ==
    ~hasToken =>
        /\ \A s \in SockIds : sockets[s] = FreeSocket
        /\ wsRef = NULL
        /\ \A t \in TimerIds : timers[t].state = "free"
        /\ reconnectTimerRef = NULL
        /\ connectionStatus = "error"

(* C19 witness: without a token the session effect has run again after a   *)
(* switch to another symbol.                                               *)
C19_SwitchedWithoutToken ==
    /\ ~hasToken /\ mounted
    /\ lastOp.op = "setup"
    /\ activeSymbol # DEFAULT_SYMBOL
    /\ connectionStatus = "error"

----------------------------------------------------------------------------
(* Start-up: from the mounted state the storage initialisation and the     *)
(* permission request complete, the reload effect loads the cached history *)
(* and the rules, and the symbol is switched, with or without a token.     *)

StartupInit ==
    \E token \in BOOLEAN :
        Mounted(token, SeedHistory, SeedRules, Inputs(0, MaxSwitches, 0, 0, 0))

StartupNext ==
    \/ DbOpen(TRUE) /\ UNCHANGED left
    \/ DbCreate(TRUE) /\ UNCHANGED left
    \/ (\E granted \in BOOLEAN : PermissionResult(granted)) /\ UNCHANGED left
    \/ (\E raw \in {TSLA, AAPL} : ApplySymbol(raw)) /\ spend("switches")
    \/ Cleanup /\ UNCHANGED left
    \/ Setup /\ UNCHANGED left
    \/ (\E s \in SockIds : TransportOpen(s)) /\ UNCHANGED left
    \/ (\E t \in InFlight, tie \in TieOrders : LoadAlertsDone(t, TRUE, tie)) /\ UNCHANGED left
    \/ (\E t \in InFlight, tie \in TieOrders : LoadCachedDone(t, TRUE, tie)) /\ UNCHANGED left

SpecStartup == StartupInit /\ [][StartupNext]_vars

(* C20: without a token, whenever the mounted screen is between flushes    *)
(* the message line shows the configuration error.                         *)
C20_ConfigMessageStays ==
    (~hasToken /\ mounted /\ Idle) => errorMessage = TokenMsg

----------------------------------------------------------------------------
(* The history store at capacity: AAPL holds DB_MAX_ITEMS rows, TSLA two,  *)
(* and ticks arrive that are older than every stored row, as old as the    *)
(* oldest, or newer than all; an INSERT or a DELETE may fail.              *)

StoredHistory ==
    {[id |-> i, symbol |-> AAPL, price |-> 1, timestamp |-> i + 1] : i \in 1..DB_MAX_ITEMS}
    \cup {[id |-> DB_MAX_ITEMS + i, symbol |-> TSLA, price |-> 1, timestamp |-> i] : i \in 1..2}

HistoryTrades ==
    {Trade(Sym(AAPL), Num(2), Num(t)) : t \in {1, 2, DB_MAX_ITEMS + 2}}

HistoryInit ==
    Streaming(FALSE, FALSE, StoredHistory, {}, Inputs(MaxFrames + 1, 0, 0, 0, 0))

HistoryNext ==
    \/ (\E s \in SockIds, f \in Singles(HistoryTrades) : TransportMessage(s, f))
          /\ spend("frames")
    \/ (\E t \in InFlight, ok \in BOOLEAN : PersistInsert(t, ok)) /\ UNCHANGED left
    \/ (\E t \in InFlight, ok \in BOOLEAN, tie \in TieOrders : PersistPrune(t, ok, tie))
          /\ UNCHANGED left
    \/ (\E t \in InFlight : CheckAlerts(t, TRUE)) /\ UNCHANGED left

SpecHistory == HistoryInit /\ [][HistoryNext]_vars

(* The stored rows of one symbol *)
RowsOf(store, symbol) == {r \in store : r.symbol = symbol}

Least(a, b) == IF a < b THEN a ELSE b

(* C21: an INSERT that succeeds adds one row, and a pruning DELETE that     *)
(* succeeds leaves, of the symbol's rows, the DB_MAX_ITEMS with the         *)
(* greatest timestamps (all of them when there are fewer) and leaves the   *)
(* rows of every other symbol as they were: a symbol with DB_MAX_ITEMS     *)
(* rows and one more holds exactly DB_MAX_ITEMS afterwards.                *)
C21_PruneKeepsNewest ==
    [][ /\ (lastOp'.op = "insert" /\ lastOp'.ok) =>
              \E r \in price_updates' \ price_updates :
                  /\ price_updates' = price_updates \cup {r}
                  /\ r.symbol = lastOp'.update.symbol
                  /\ r.price = lastOp'.update.price
                  /\ r.timestamp = lastOp'.update.timestamp
        /\ (lastOp'.op = "prune" /\ lastOp'.ok) =>
              LET before == RowsOf(price_updates, lastOp'.sym)
                  after == RowsOf(price_updates', lastOp'.sym)
              IN /\ after \subseteq before
                 /\ Cardinality(after) = Least(Cardinality(before), DB_MAX_ITEMS)
                 /\ \A k \in after, d \in before \ after : k.timestamp >= d.timestamp
                 /\ price_updates' \ after = price_updates \ before
      ]_vars

(* C21 witness: the newest tick has been inserted into a full history and  *)
(* the prune has run: AAPL holds DB_MAX_ITEMS rows, the new one among them, *)
(* and the oldest stored row is gone.                                      *)
C21_PrunedAtCapacity ==
    /\ lastOp.op = "prune" /\ lastOp.ok /\ lastOp.update.timestamp = DB_MAX_ITEMS + 2
    /\ Cardinality(RowsOf(price_updates, AAPL)) = DB_MAX_ITEMS
    /\ \E r \in price_updates : r.symbol = AAPL /\ r.timestamp = DB_MAX_ITEMS + 2
    /\ ~\E r \in price_updates : r.symbol = AAPL /\ r.timestamp = 2
    /\ Cardinality(RowsOf(price_updates, TSLA)) = 2

(* C22: a pruning DELETE that fails leaves the store as it is, possibly    *)
(* over DB_MAX_ITEMS rows, changes nothing on the screen or in the session *)
(* and is followed by the alert evaluation of the same tick; and every     *)
(* pruning DELETE that succeeds leaves its symbol with at most             *)
(* DB_MAX_ITEMS rows, however many it held.                                *)
C22_FailedPruneIsRepaired ==
    [][ /\ (lastOp'.op = "prune" /\ ~lastOp'.ok) =>
              /\ UNCHANGED <<price_updates, price_alerts, updates, connectionStatus,
                             errorMessage, sockets, wsRef, timers, reconnectTimerRef>>
              /\ \E t \in BagToSet(tasks') :
                    /\ t.kind = "persist" /\ t.pc = "select"
                    /\ t.update = lastOp'.update
                    /\ count(tasks', t) = count(tasks, t) + 1
        /\ (lastOp'.op = "prune" /\ lastOp'.ok) =>
              Cardinality(RowsOf(price_updates', lastOp'.sym)) <= DB_MAX_ITEMS
      ]_vars

(* C22 witness: the DELETE after a successful INSERT has failed and AAPL   *)
(* holds more than DB_MAX_ITEMS rows.                                      *)
C22_OverCapacityAfterFailure ==
    /\ lastOp.op = "prune" /\ ~lastOp.ok
    /\ Cardinality(RowsOf(price_updates, AAPL)) > DB_MAX_ITEMS

----------------------------------------------------------------------------
(* Frames during start-up: the transport opens and delivers ticks while    *)
(* initializeDbAsync is still running, or after it has completed.          *)

EarlyInit == Mounted(TRUE, SeedHistory, {}, Inputs(MaxFrames + 1, 0, 0, 0, 0))

EarlyNext ==
    \/ DbOpen(TRUE) /\ UNCHANGED left
    \/ DbCreate(TRUE) /\ UNCHANGED left
    \/ Setup /\ UNCHANGED left
    \/ (\E s \in SockIds : TransportOpen(s)) /\ UNCHANGED left
    \/ (\E s \in SockIds, f \in Singles(SessionTrades) : TransportMessage(s, f))
          /\ spend("frames")
    \/ (\E t \in InFlight : PersistInsert(t, TRUE)) /\ UNCHANGED left
    \/ (\E t \in InFlight, tie \in TieOrders : PersistPrune(t, TRUE, tie)) /\ UNCHANGED left
    \/ (\E t \in InFlight : CheckAlerts(t, TRUE)) /\ UNCHANGED left
    \/ (\E t \in InFlight, tie \in TieOrders : LoadAlertsDone(t, TRUE, tie)) /\ UNCHANGED left
    \/ (\E t \in InFlight, tie \in TieOrders : LoadCachedDone(t, TRUE, tie)) /\ UNCHANGED left

SpecEarly == EarlyInit /\ [][EarlyNext]_vars

(* C23: every tick that a frame puts into the tick buffer starts one       *)
(* history insert for that tick, and the insert adds one row with the      *)
(* tick's symbol, price and timestamp.                                     *)
C23_AcceptedTickIsInserted ==
    [][ /\ (lastOp'.op = "message" /\ lastOp'.frame.kind = "data") =>
              LET news == acceptedUpdates(lastOp'.frame.data, lastOp'.sym)
              IN \A i \in 1..Len(news) :
                    /\ updates'[1] = news[Len(news)]
                    /\ \E t \in BagToSet(tasks') :
                          /\ t.kind = "persist" /\ t.pc = "insert" /\ t.update = news[i]
                          /\ count(tasks', t) > count(tasks, t)
        /\ lastOp'.op = "insert" =>
              \E r \in price_updates' \ price_updates :
                  /\ price_updates' = price_updates \cup {r}
                  /\ r.symbol = lastOp'.update.symbol
                  /\ r.price = lastOp'.update.price
                  /\ r.timestamp = lastOp'.update.timestamp
      ]_vars

----------------------------------------------------------------------------
(* Storage that fails: every statement of persistUpdate,                   *)
(* checkAlertsForUpdate and loadAlerts may be rejected, while ticks keep   *)
(* arriving.                                                               *)

FaultTrades == {Trade(Sym(AAPL), Num(2), Num(t)) : t \in Times}

FaultsInit ==
    \E allowed \in BOOLEAN :
        Streaming(allowed, FALSE, {}, SeedRules, Inputs(MaxFrames + 1, 0, 0, 0, 0))

FaultsNext ==
    \/ (\E s \in SockIds, f \in Singles(FaultTrades) : TransportMessage(s, f))
          /\ spend("frames")
    \/ (\E t \in InFlight, ok \in BOOLEAN : PersistInsert(t, ok)) /\ UNCHANGED left
    \/ (\E t \in InFlight, ok \in BOOLEAN, tie \in TieOrders : PersistPrune(t, ok, tie))
          /\ UNCHANGED left
    \/ (\E t \in InFlight, ok \in BOOLEAN : CheckAlerts(t, ok)) /\ UNCHANGED left
    \/ (\E t \in InFlight : NotifyDone(t, t.ids)) /\ UNCHANGED left
    \/ (\E t \in InFlight, ok \in BOOLEAN : AlertUpdate(t, ok)) /\ UNCHANGED left
    \/ (\E t \in InFlight, ok \in BOOLEAN, tie \in TieOrders : LoadAlertsDone(t, ok, tie))
          /\ UNCHANGED left

SpecFaults == FaultsInit /\ [][FaultsNext]_vars

StorageSteps == {"insert", "prune", "checkAlerts", "alertUpdate", "loadAlerts"}

(* C24: a statement of the history store or of the alert store that fails  *)
(* leaves the tick buffer, the connection status, the transports and the   *)
(* reconnect timer as they were; and a frame with a tick of the session's  *)
(* symbol puts that tick at the head of the buffer, whatever has failed    *)
(* before.                                                                 *)
C24_StorageFailureIsLocal ==
    [][ /\ (lastOp'.op \in StorageSteps /\ ~lastOp'.ok) =>
              UNCHANGED <<updates, connectionStatus, sockets, wsRef, timers,
                          reconnectTimerRef>>
        /\ (lastOp'.op = "message" /\ lastOp'.frame.kind = "data") =>
              LET news == acceptedUpdates(lastOp'.frame.data, lastOp'.sym)
              IN news # <<>> => (updates' # <<>> /\ updates'[1] = news[Len(news)])
      ]_vars

(* C24 witness: the INSERT of the first tick failed and its call has       *)
(* ended; the second tick has then been accepted into the buffer.          *)
C24_AcceptedAfterFailure ==
    /\ lastOp.op = "message"
    /\ Len(updates) = 2
    /\ price_updates = {}
    /\ BagCardinality(tasks) = 1
    /\ connectionStatus = "open"

----------------------------------------------------------------------------
(* The analytics of the header, utils/market.ts.  Prices are integers and  *)
(* a quotient is kept exact, as a fraction in lowest terms.                *)

Abs(n) == IF n < 0 THEN -n ELSE n

RECURSIVE GCD(_, _)
GCD(a, b) == IF b = 0 THEN a ELSE GCD(b, a % b)

(* n / d for d # 0 *)
Quotient(n, d) ==
    LET g == GCD(Abs(n), Abs(d))
        sign == IF d < 0 THEN -1 ELSE 1
    IN [num |-> (sign * n) \div g, den |-> Abs(d) \div g]

Whole(n) == [num |-> n, den |-> 1]

reverse(seq) == [i \in 1..Len(seq) |-> seq[Len(seq) + 1 - i]]

MathMax(numbers) == CHOOSE x \in range(numbers) : \A y \in range(numbers) : x >= y
MathMin(numbers) == CHOOSE x \in range(numbers) : \A y \in range(numbers) : x <= y

(* A slip: the basis is the entry after the latest, not the oldest *)
computeMetricsPreviousAsBasis(entries) ==
    IF Len(entries) = 0
    THEN [change |-> 0, percentage |-> Whole(0), basis |-> JsonNull, latest |-> JsonNull]
    ELSE LET latest == entries[1].price
             oldest == entries[IF Len(entries) > 1 THEN 2 ELSE 1].price
             change == latest - oldest
             percentage == IF oldest # 0 THEN Quotient(change * 100, oldest) ELSE Whole(0)
         IN [change |-> change, percentage |-> percentage,
             basis |-> Num(oldest), latest |-> Num(latest)]

(* computeMetrics, lines 15-30 *)
computeMetrics(entries) ==
    IF Len(entries) = 0
    THEN [change |-> 0, percentage |-> Whole(0), basis |-> JsonNull, latest |-> JsonNull]
    ELSE LET latest == entries[1].price
             oldest == entries[Len(entries)].price
             change == latest - oldest
             percentage == IF oldest # 0 THEN Quotient(change * 100, oldest) ELSE Whole(0)
         IN [change |-> change, percentage |-> percentage,
             basis |-> Num(oldest), latest |-> Num(latest)]

NoSparkline == [points |-> <<>>, min |-> JsonNull, max |-> JsonNull]

(* A slip: the guard lets a single entry through *)
computeSparklinePointsFromOne(entries) ==
    IF Len(entries) < 1
    THEN NoSparkline
    ELSE LET chronological == reverse(entries)
             prices == [i \in 1..Len(chronological) |-> chronological[i].price]
             max == MathMax(prices)
             min == MathMin(prices)
             range_ == IF max - min # 0 THEN max - min ELSE 1
         IN [points |-> [i \in 1..Len(chronological) |->
                            [key |-> chronological[i].timestamp,
                             price |-> chronological[i].price,
                             normalized |-> Quotient(chronological[i].price - min, range_)]],
             min |-> Num(min), max |-> Num(max)]

(* A slip: the range is taken from the first and the last entry *)
computeSparklinePointsEndsAsRange(entries) ==
    IF Len(entries) < 2
    THEN NoSparkline
    ELSE LET chronological == reverse(entries)
             prices == [i \in 1..Len(chronological) |-> chronological[i].price]
             max == prices[Len(prices)]
             min == prices[1]
             range_ == IF max - min # 0 THEN max - min ELSE 1
         IN [points |-> [i \in 1..Len(chronological) |->
                            [key |-> chronological[i].timestamp,
                             price |-> chronological[i].price,
                             normalized |-> Quotient(chronological[i].price - min, range_)]],
             min |-> Num(min), max |-> Num(max)]

(* A slip: an empty range puts every point in the middle *)
computeSparklinePointsFlatInMiddle(entries) ==
    IF Len(entries) < 2
    THEN NoSparkline
    ELSE LET chronological == reverse(entries)
             prices == [i \in 1..Len(chronological) |-> chronological[i].price]
             max == MathMax(prices)
             min == MathMin(prices)
         IN [points |-> [i \in 1..Len(chronological) |->
                            [key |-> chronological[i].timestamp,
                             price |-> chronological[i].price,
                             normalized |-> IF max - min # 0
                                            THEN Quotient(chronological[i].price - min,
                                                          max - min)
                                            ELSE Quotient(1, 2)]],
             min |-> Num(min), max |-> Num(max)]

(* computeSparklinePoints, lines 32-56; `max - min || 1` is 1 when the     *)
(* difference is 0                                                         *)
(* A slip: the entries are taken in the order given *)
computeSparklinePointsInInputOrder(entries) ==
    IF Len(entries) < 2
    THEN NoSparkline
    ELSE LET chronological == entries
             prices == [i \in 1..Len(chronological) |-> chronological[i].price]
             max == MathMax(prices)
             min == MathMin(prices)
             range_ == IF max - min # 0 THEN max - min ELSE 1
         IN [points |-> [i \in 1..Len(chronological) |->
                            [key |-> chronological[i].timestamp,
                             price |-> chronological[i].price,
                             normalized |-> Quotient(chronological[i].price - min, range_)]],
             min |-> Num(min), max |-> Num(max)]

computeSparklinePoints(entries) ==
    IF Len(entries) < 2
    THEN NoSparkline
    ELSE LET chronological == reverse(entries)
             prices == [i \in 1..Len(chronological) |-> chronological[i].price]
             max == MathMax(prices)
             min == MathMin(prices)
             range_ == IF max - min # 0 THEN max - min ELSE 1
         IN [points |-> [i \in 1..Len(chronological) |->
                            [key |-> chronological[i].timestamp,
                             price |-> chronological[i].price,
                             normalized |-> Quotient(chronological[i].price - min, range_)]],
             min |-> Num(min), max |-> Num(max)]

(* A render of App: the memoised analytics are computed from the buffer,   *)
(* part_002 lines 718-722                                                  *)
Render ==
    /\ Idle /\ mounted
    /\ lastOp' = [op |-> "render", sym |-> activeSymbol, stale |-> FALSE,
                  update |-> NoUpdate, ids |-> {}, ok |-> TRUE, entries |-> updates,
                  metrics |-> computeMetrics(updates),
                  sparkline |-> computeSparklinePoints(updates)]
    /\ UNCHANGED <<reactVars, lifeVars, flushVars, connVars, dbVars, asyncVars>>

MaxEntries == 3

EntryPrices == {0, 1, 2, 4}

(* Every history of up to MaxEntries rows, one per timestamp *)
EntryHistories ==
    UNION { { {[id |-> i, symbol |-> AAPL, price |-> prices[i], timestamp |-> i] : i \in 1..n}
              : prices \in [1..n -> EntryPrices] }
            : n \in 0..MaxEntries }

MetricsTrades == {Trade(Sym(AAPL), Num(p), Num(MaxEntries + 1)) : p \in EntryPrices}

MetricsInit ==
    \E history \in EntryHistories :
        Streaming(FALSE, FALSE, history, {}, Inputs(MaxFrames, 0, 0, 0, 0))

MetricsNext ==
    \/ Render /\ UNCHANGED left
    \/ (\E s \in SockIds, f \in Singles(MetricsTrades) : TransportMessage(s, f))
          /\ spend("frames")
    \/ (\E t \in InFlight : PersistInsert(t, TRUE)) /\ UNCHANGED left
    \/ (\E t \in InFlight, tie \in TieOrders : PersistPrune(t, TRUE, tie)) /\ UNCHANGED left
    \/ (\E t \in InFlight : CheckAlerts(t, TRUE)) /\ UNCHANGED left

SpecMetrics == MetricsInit /\ [][MetricsNext]_vars

(* C25: for the empty sequence the metrics are change 0, percentage 0,     *)
(* basis null and latest null; otherwise latest is the price of the first  *)
(* entry, basis the price of the last, change their difference, and the    *)
(* percentage is 0 when the basis is 0 and else the number p with          *)
(* p * basis = change * 100.                                               *)
C25_MetricsOfBuffer ==
    lastOp.op = "render" =>
        LET e == lastOp.entries
            m == lastOp.metrics
        IN IF e = <<>>
           THEN /\ m.change = 0 /\ m.percentage = Whole(0)
                /\ m.basis = JsonNull /\ m.latest = JsonNull
           ELSE /\ m.latest = Num(e[1].price)
                /\ m.basis = Num(e[Len(e)].price)
                /\ m.change = e[1].price - e[Len(e)].price
                /\ IF e[Len(e)].price = 0
                   THEN m.percentage = Whole(0)
                   ELSE m.percentage.num * e[Len(e)].price
                            = m.change * 100 * m.percentage.den
                /\ Len(e) = 1 => (m.change = 0 /\ m.percentage = Whole(0))

(* C25 witness: the metrics of a buffer of three entries whose oldest      *)
(* price is neither 0 nor the latest price have been computed.             *)
C25_MetricsOfThree ==
    /\ lastOp.op = "render" /\ Len(lastOp.entries) = 3
    /\ lastOp.entries[3].price = 4 /\ lastOp.entries[2].price = 2
    /\ lastOp.entries[1].price = 1
    /\ lastOp.metrics.change = -3
    /\ lastOp.metrics.percentage = [num |-> -75, den |-> 1]

(* The prices of a sequence of entries *)
PricesOf(entries) == {entries[i].price : i \in 1..Len(entries)}

(* C26: the sparkline of a buffer of fewer than two entries has no points, *)
(* min null and max null.                                                  *)
C26_NoSparklineBelowTwo ==
    (lastOp.op = "render" /\ Len(lastOp.entries) < 2) =>
        /\ lastOp.sparkline.points = <<>>
        /\ lastOp.sparkline.min = JsonNull
        /\ lastOp.sparkline.max = JsonNull

(* C26 witness: the sparkline of a buffer of one entry has been computed *)
C26_SparklineOfOne ==
    /\ lastOp.op = "render" /\ Len(lastOp.entries) = 1
    /\ lastOp.sparkline = NoSparkline

(* C27: for a buffer of two or more entries whose prices differ, min and   *)
(* max are the least and the greatest price, there is one point per entry, *)
(* every normalized value n/d has 0 <= n <= d, it is 0 for every point     *)
(* with the least price and 1 for every point with the greatest.           *)
C27_SparklineNormalized ==
    (lastOp.op = "render" /\ Len(lastOp.entries) >= 2
        /\ Cardinality(PricesOf(lastOp.entries)) > 1) =>
        LET e == lastOp.entries
            sp == lastOp.sparkline
        IN /\ sp.min.t = "number" /\ sp.min.v \in PricesOf(e)
           /\ \A x \in PricesOf(e) : sp.min.v <= x
           /\ sp.max.t = "number" /\ sp.max.v \in PricesOf(e)
           /\ \A x \in PricesOf(e) : sp.max.v >= x
           /\ Len(sp.points) = Len(e)
           /\ \A i \in 1..Len(sp.points) :
                 LET pt == sp.points[i] IN
                 /\ pt.price \in PricesOf(e)
                 /\ pt.normalized.den > 0
                 /\ 0 <= pt.normalized.num /\ pt.normalized.num <= pt.normalized.den
                 /\ pt.price = sp.min.v => pt.normalized = Whole(0)
                 /\ pt.price = sp.max.v => pt.normalized = Whole(1)

(* C27 witness: the sparkline of three entries whose greatest price is in  *)
(* the middle has been computed, with a point strictly between 0 and 1.    *)
C27_SparklineOfUnsorted ==
    /\ lastOp.op = "render" /\ Len(lastOp.entries) = 3
    /\ lastOp.entries[1].price = 2 /\ lastOp.entries[2].price = 4
    /\ lastOp.entries[3].price = 0
    /\ lastOp.sparkline.points[3].normalized = [num |-> 1, den |-> 2]

(* C28: for a buffer of two or more entries of one price, every normalized *)
(* value is 0 and min and max are that price.                              *)
C28_FlatSparklineIsZero ==
    (lastOp.op = "render" /\ Len(lastOp.entries) >= 2
        /\ Cardinality(PricesOf(lastOp.entries)) = 1) =>
        LET e == lastOp.entries
            sp == lastOp.sparkline
        IN /\ sp.min = Num(e[1].price) /\ sp.max = Num(e[1].price)
           /\ Len(sp.points) = Len(e)
           /\ \A i \in 1..Len(sp.points) : sp.points[i].normalized = Whole(0)

(* C28 witness: the sparkline of three entries of price 4 has been computed *)
C28_SparklineOfFlat ==
    /\ lastOp.op = "render" /\ Len(lastOp.entries) = 3
    /\ PricesOf(lastOp.entries) = {4}
    /\ Len(lastOp.sparkline.points) = 3

----------------------------------------------------------------------------
(* The market-hours banner.  A Date is kept as the whole minutes since     *)
(* 1970-01-01T00:00Z, a Thursday; the seconds play no part.                *)

getUTCDay(date) == ((date \div (24 * 60)) + 4) % 7
getUTCHours(date) == (date % (24 * 60)) \div 60
getUTCMinutes(date) == date % 60

(* A slip: the closing minute is left out *)
isUsMarketOpenBeforeClose(date) ==
    LET day == getUTCDay(date)
        minutesOfDay == getUTCHours(date) * 60 + getUTCMinutes(date)
        openMinutes == 14 * 60 + 30
        closeMinutes == 21 * 60
        weekday == day >= 1 /\ day <= 5
    IN weekday /\ minutesOfDay >= openMinutes /\ minutesOfDay < closeMinutes

(* isUsMarketOpen, utils/market.ts lines 58-70 *)
isUsMarketOpen(date) ==
    LET day == getUTCDay(date)
        minutesOfDay == getUTCHours(date) * 60 + getUTCMinutes(date)
        openMinutes == 14 * 60 + 30
        closeMinutes == 21 * 60
        weekday == day >= 1 /\ day <= 5
    IN weekday /\ minutesOfDay >= openMinutes /\ minutesOfDay <= closeMinutes

(* updateMarketStatus, part_002 lines 175-189, at the time `now` *)
UpdateMarketStatus(now) ==
    /\ mounted
    /\ lastOp' = [op |-> "marketStatus", sym |-> activeSymbol, stale |-> FALSE,
                  update |-> NoUpdate, ids |-> {}, ok |-> TRUE, date |-> now,
                  open |-> isUsMarketOpen(now)]
    /\ UNCHANGED <<reactVars, lifeVars, flushVars, connVars, dbVars, asyncVars>>

(* Every minute of two weeks *)
Dates == 0 .. (14 * 24 * 60 - 1)

MarketInit == Streaming(FALSE, FALSE, {}, {}, Inputs(0, 0, 0, 0, 0))

(* The first call is made on mount, the later ones by the interval timer   *)
(* a minute after the one before                                           *)
Clock ==
    IF lastOp.op = "marketStatus" THEN {lastOp.date + 1} \cap Dates ELSE Dates

MarketNext == (\E now \in Clock : UpdateMarketStatus(now)) /\ UNCHANGED left

SpecMarket == MarketInit /\ [][MarketNext]_vars

(* Minutes from Thursday 00:00 UTC to the start of Monday .. Friday *)
WeekdayStarts == {0, 24 * 60, 4 * 24 * 60, 5 * 24 * 60, 6 * 24 * 60}

(* C29: the market is reported open exactly at the minutes that lie, on a  *)
(* Monday to Friday in UTC, from 14:30 to 21:00, both included.            *)
C29_OpenOnWeekdaySession ==
    lastOp.op = "marketStatus" =>
        LET sinceThursday == lastOp.date % (7 * 24 * 60)
        IN lastOp.open <=>
              \E start \in WeekdayStarts :
                  /\ start + 870 <= sinceThursday
                  /\ sinceThursday <= start + 1260

(* C29 witness: the status has been computed at 21:00 on a Monday and is   *)
(* open.                                                                   *)
C29_MondayAtClose ==
    /\ lastOp.op = "marketStatus"
    /\ lastOp.date = 4 * 24 * 60 + 1260
    /\ lastOp.open

----------------------------------------------------------------------------
(* Arrival order: the buffer is full of loaded entries and ticks arrive    *)
(* that are newer than every entry, older than every entry, or have the    *)
(* key of the second entry; each may arrive more than once.                *)

ArrivalTrades ==
    { Trade(Sym(AAPL), Num(2), Num(MaxHistory + 1)),
      Trade(Sym(AAPL), Num(2), Num(1)),
      Trade(Sym(AAPL), Num(1), Num(MaxHistory - 1)) }

ArrivalInit ==
    Streaming(FALSE, FALSE, FullHistory, {}, Inputs(MaxFrames + 2, 0, 0, 0, 0))

ArrivalNext ==
    \/ (\E s \in SockIds, f \in Singles(ArrivalTrades) : TransportMessage(s, f))
          /\ spend("frames")
    \/ (\E t \in InFlight : PersistInsert(t, TRUE)) /\ UNCHANGED left
    \/ (\E t \in InFlight, tie \in TieOrders : PersistPrune(t, TRUE, tie)) /\ UNCHANGED left
    \/ (\E t \in InFlight : CheckAlerts(t, TRUE)) /\ UNCHANGED left

SpecArrival == ArrivalInit /\ [][ArrivalNext]_vars

(* C30: a frame of one valid tick puts the tick first in the buffer and    *)
(* keeps the other entries in the order they had; when an entry with the   *)
(* tick's key was held it is gone and the length is the same, otherwise    *)
(* the length is one more up to MAX_ITEMS, and a full buffer loses its     *)
(* last entry.  Where the tick's timestamp lies among the entries plays no *)
(* part.                                                                   *)
C30_TickGoesToFront ==
    [][ (/\ mounted
         /\ lastOp'.op = "message" /\ lastOp'.frame.kind = "data"
         /\ Len(lastOp'.frame.data) = 1
         /\ accepted(lastOp'.frame.data[1], lastOp'.sym)) =>
          LET update == toUpdate(lastOp'.frame.data[1])
              held == \E i \in 1..Len(updates) : updates[i].key = update.key
              differs(item) == item.key # update.key
              others == SelectSeq(updates, differs)
          IN /\ updates' # <<>>
             /\ updates'[1] = update
             /\ Tail(updates') = SubSeq(others, 1, Len(updates') - 1)
             /\ held => Len(updates') = Len(updates)
             /\ ~held => Len(updates') = Least(Len(updates) + 1, MAX_ITEMS)
             /\ (~held /\ Len(updates) = MAX_ITEMS) =>
                    Tail(updates') = SubSeq(updates, 1, MAX_ITEMS - 1)
      ]_vars

(* C30 witness: a tick older than every entry has been accepted into a     *)
(* full buffer and stands first, before a newer entry.                     *)
C30_LateTickInFront ==
    /\ lastOp.op = "message"
    /\ Len(updates) = MAX_ITEMS
    /\ updates[1].timestamp = 1
    /\ updates[2].timestamp > updates[1].timestamp

----------------------------------------------------------------------------
(* The chain of one tick: a frame carries one or two ticks, and the INSERT *)
(* or the DELETE of either may fail.                                       *)

ChainTrades == {Trade(Sym(AAPL), Num(2), Num(t)) : t \in Times}

ChainInit ==
    Streaming(FALSE, FALSE, {}, SeedRules, Inputs(MaxFrames, 0, 0, 0, 0))

ChainNext ==
    \/ (\E s \in SockIds, b \in Batches(ChainTrades) : TransportMessage(s, DataFrame(b)))
          /\ spend("frames")
    \/ (\E t \in InFlight, ok \in BOOLEAN : PersistInsert(t, ok)) /\ UNCHANGED left
    \/ (\E t \in InFlight, ok \in BOOLEAN, tie \in TieOrders : PersistPrune(t, ok, tie))
          /\ UNCHANGED left
    \/ (\E t \in InFlight : CheckAlerts(t, TRUE)) /\ UNCHANGED left
    \/ (\E t \in InFlight : AlertUpdate(t, TRUE)) /\ UNCHANGED left
    \/ (\E t \in InFlight, tie \in TieOrders : LoadAlertsDone(t, TRUE, tie)) /\ UNCHANGED left

SpecChain == ChainInit /\ [][ChainNext]_vars

(* The calls in flight for a tick that stand at one of the given awaits *)
Standing(bag, update, pcs) ==
    LET at == {t \in BagToSet(bag) :
                  t.kind = "persist" /\ t.update = update /\ t.pc \in pcs}
        RECURSIVE sum(_)
        sum(ts) == IF ts = {} THEN 0
                   ELSE LET t == CHOOSE x \in ts : TRUE
                        IN count(bag, t) + sum(ts \ {t})
    IN sum(at)

(* The step ends the persistence of a tick: a DELETE has run, or an INSERT *)
(* has failed                                                              *)
EndsPersistence(op) == op.op = "prune" \/ (op.op = "insert" /\ ~op.ok)

(* C31: the evaluation of a tick starts exactly when the persistence of    *)
(* that tick ends, with or without success: a call comes to stand at its   *)
(* SELECT only by a step that ends the persistence of its tick, every such *)
(* step brings one there, and the SELECT that runs is of a call standing   *)
(* there.  The handler starts the calls and waits for none: after a frame  *)
(* every accepted tick is in the buffer, its call stands at the INSERT and *)
(* the stores are as they were.                                            *)
C31_EvaluationFollowsPersistence ==
    [][ LET u == lastOp'.update
        IN /\ \A t \in BagToSet(tasks') :
                  (t.kind = "persist" /\ t.pc = "select" /\ count(tasks', t) > count(tasks, t)) =>
                      /\ EndsPersistence(lastOp') /\ t.update = u
                      /\ Standing(tasks', u, {"insert", "prune"})
                            = Standing(tasks, u, {"insert", "prune"}) - 1
           /\ (EndsPersistence(lastOp') /\ dbRef # NULL) =>
                  Standing(tasks', u, {"select"}) = Standing(tasks, u, {"select"}) + 1
           /\ lastOp'.op = "checkAlerts" =>
                  Standing(tasks', u, {"select"}) = Standing(tasks, u, {"select"}) - 1
           /\ (lastOp'.op = "message" /\ lastOp'.frame.kind = "data" /\ mounted) =>
                  LET batch == lastOp'.frame.data
                  IN /\ UNCHANGED <<price_updates, price_alerts>>
                     /\ \A i \in 1..Len(batch) :
                            accepted(batch[i], lastOp'.sym) =>
                               /\ \E j \in 1..Len(updates') : updates'[j] = toUpdate(batch[i])
                               /\ dbRef # NULL =>
                                     Standing(tasks', toUpdate(batch[i]), {"insert"})
                                        > Standing(tasks, toUpdate(batch[i]), {"insert"})
      ]_vars

(* C31 witness: the INSERT of one tick of a batch has failed and its call  *)
(* stands at the SELECT, while the call of the other tick still stands at  *)
(* its INSERT and both ticks are in the buffer.                            *)
C31_EvaluationAfterFailedInsert ==
    /\ lastOp.op = "insert" /\ ~lastOp.ok
    /\ Len(updates) = 2
    /\ Standing(tasks, lastOp.update, {"select"}) = 1
    /\ \E t \in InFlight : t.kind = "persist" /\ t.pc = "insert" /\ t.update # lastOp.update

----------------------------------------------------------------------------
(* A burst on a history store at capacity: frames of one or two ticks      *)
(* whose timestamps differ from every stored one, older than all rows or   *)
(* newer; every statement succeeds and the INSERTs and DELETEs of the      *)
(* ticks run in any order.                                                 *)

OrderTimes == {1, DB_MAX_ITEMS + 2, DB_MAX_ITEMS + 3}

OrderTrades == {Trade(Sym(AAPL), Num(2), Num(t)) : t \in OrderTimes}

OrderInit ==
    Streaming(FALSE, FALSE, StoredHistory, {}, Inputs(MaxFrames, 0, 0, 0, 0))

OrderNext ==
    \/ (\E s \in SockIds, b \in Batches(OrderTrades) : TransportMessage(s, DataFrame(b)))
          /\ spend("frames")
    \/ (\E t \in InFlight : PersistInsert(t, TRUE)) /\ UNCHANGED left
    \/ (\E t \in InFlight, tie \in TieOrders : PersistPrune(t, TRUE, tie)) /\ UNCHANGED left
    \/ (\E t \in InFlight : CheckAlerts(t, TRUE)) /\ UNCHANGED left

SpecOrder == OrderInit /\ [][OrderNext]_vars

(* What a row holds besides its rowid *)
Content(rows) == {<<r.symbol, r.price, r.timestamp>> : r \in rows}

(* Of contents with distinct timestamps, the n with the greatest ones *)
Newest(contents, n) ==
    {c \in contents : Cardinality({d \in contents : d[3] > c[3]}) < n}

(* The contents left when the ticks are persisted one after another: each  *)
(* is inserted and the symbol is pruned before the next one is inserted    *)
RECURSIVE OneAfterAnother(_, _)
OneAfterAnother(contents, ticks) ==
    IF ticks = <<>> THEN contents
    ELSE OneAfterAnother(
             Newest(contents \cup {<<Head(ticks).symbol, Head(ticks).price,
                                     Head(ticks).timestamp>>}, DB_MAX_ITEMS),
             Tail(ticks))

(* The live ticks in the buffer, in the order they arrived *)
Arrived ==
    LET live(item) == item.timestamp \in OrderTimes
    IN reverse(SelectSeq(updates, live))

(* C32: when the ticks that arrived have distinct timestamps and every     *)
(* call has ended, the stored rows of the symbol hold what they would hold *)
(* had the ticks been persisted one after another in arrival order, and    *)
(* they are at most DB_MAX_ITEMS.                                          *)
C32_InterleavingIsSequential ==
    (/\ tasks = EmptyBag
     /\ sqlite_sequence.price_updates = DB_MAX_ITEMS + 2 + Len(Arrived)) =>
        /\ Content(RowsOf(price_updates, AAPL))
              = OneAfterAnother(Content(RowsOf(StoredHistory, AAPL)), Arrived)
        /\ Cardinality(RowsOf(price_updates, AAPL)) <= DB_MAX_ITEMS

(* C32 witness: two ticks have been inserted before either DELETE ran, the *)
(* later tick first, and every call has ended.                             *)
C32_InsertedOutOfOrder ==
    /\ tasks = EmptyBag
    /\ Len(Arrived) >= 2
    /\ sqlite_sequence.price_updates = DB_MAX_ITEMS + 2 + Len(Arrived)
    /\ \E a, b \in RowsOf(price_updates, AAPL) :
          /\ a.timestamp = Arrived[1].timestamp /\ b.timestamp = Arrived[2].timestamp
          /\ a.id > b.id

----------------------------------------------------------------------------
(* Ticks that are not in the stored history arrive during start-up, before *)
(* or after the cached history has been loaded.                            *)

LateTrades == {Trade(Sym(AAPL), Num(2), Num(2))}

LateInit == Mounted(TRUE, SeedHistory, {}, Inputs(MaxFrames + 1, 0, 0, 0, 0))

LateNext ==
    \/ DbOpen(TRUE) /\ UNCHANGED left
    \/ DbCreate(TRUE) /\ UNCHANGED left
    \/ Setup /\ UNCHANGED left
    \/ (\E s \in SockIds : TransportOpen(s)) /\ UNCHANGED left
    \/ (\E s \in SockIds, f \in Singles(LateTrades) : TransportMessage(s, f))
          /\ spend("frames")
    \/ (\E t \in InFlight : PersistInsert(t, TRUE)) /\ UNCHANGED left
    \/ (\E t \in InFlight, tie \in TieOrders : PersistPrune(t, TRUE, tie)) /\ UNCHANGED left
    \/ (\E t \in InFlight : CheckAlerts(t, TRUE)) /\ UNCHANGED left
    \/ (\E t \in InFlight, tie \in TieOrders : LoadAlertsDone(t, TRUE, tie)) /\ UNCHANGED left
    \/ (\E t \in InFlight, tie \in TieOrders : LoadCachedDone(t, TRUE, tie)) /\ UNCHANGED left

SpecLate == LateInit /\ [][LateNext]_vars

(* The entry came from a frame: its key ends in its price *)
Ticked(item) == item.key = <<item.symbol, item.timestamp, item.price>>

(* The buffer holds an entry with the item's symbol, price and timestamp *)
Holds(buffer, item) ==
    \E j \in 1..Len(buffer) :
        /\ buffer[j].symbol = item.symbol
        /\ buffer[j].price = item.price
        /\ buffer[j].timestamp = item.timestamp

(* C33: while the screen is mounted and the active symbol stays the same,  *)
(* a tick that a frame put into the buffer is still in it after every      *)
(* step, unless the step is a frame that finds the buffer full.            *)
C33_AcceptedTickStays ==
    [][ (mounted' /\ activeSymbol' = activeSymbol) =>
          \A i \in 1..Len(updates) :
              Ticked(updates[i]) =>
                 \/ Holds(updates', updates[i])
                 \/ lastOp'.op = "message" /\ Len(updates) = MAX_ITEMS
      ]_vars

----------------------------------------------------------------------------
(* C34: close() is called on a transport only in the flush that follows a  *)
(* change of the active symbol, or when the screen is unmounted.           *)
C34_TeardownOnlyOnSwitchOrUnmount ==
    [][ (\E s \in SockIds : sockets'[s].closeRequested /\ ~sockets[s].closeRequested) =>
          (~mounted \/ lastOp.op = "applySymbol")
      ]_vars

----------------------------------------------------------------------------
(* C35: when every call has ended on the mounted screen, every rule in the *)
(* displayed alert list is a rule of the active symbol.                    *)
C35_AlertListOfActiveSymbol ==
    (mounted /\ Idle /\ tasks = EmptyBag) =>
        \A i \in 1..Len(alerts) : alerts[i].symbol = activeSymbol

----------------------------------------------------------------------------
(* C36: an open or error event of a transport whose session has been torn  *)
(* down leaves the connection status and the message line as they were.    *)
C36_StaleEventChangesNothing ==
    [][ (lastOp'.op \in {"open", "error"} /\ lastOp'.stale) =>
          UNCHANGED <<connectionStatus, errorMessage>>
      ]_vars

----------------------------------------------------------------------------
(* C37: a submitted text that is blank after trimming, or that names the   *)
(* active symbol once trimmed and upper-cased, leaves the active symbol,   *)
(* the tick buffer, the transports, the reconnect timer and the status as  *)
(* they were and starts no effect flush; the blank text sets the message   *)
(* that asks for a symbol.                                                 *)
C37_NoOpApplyChangesNothing ==
    [][ lastOp'.op = "applySymbol" =>
          LET normalized == toUpperCase(trim(lastOp'.raw))
          IN (normalized = <<>> \/ normalized = activeSymbol) =>
                /\ UNCHANGED <<activeSymbol, updates, sockets, wsRef, timers,
                               reconnectTimerRef, connectionStatus, phase, dirty>>
                /\ normalized = <<>> => errorMessage' = EnterSymbolMsg
      ]_vars

(* C37 witness: the active symbol has been submitted in lower case on a    *)
(* stream that is open and has a tick in its buffer.                       *)
C37_SameSymbolInLowerCase ==
    /\ lastOp.op = "applySymbol"
    /\ lastOp.raw = <<"a", "a", "p", "l">>
    /\ activeSymbol = AAPL
    /\ updates # <<>>
    /\ wsRef # NULL /\ sockets[wsRef].state = "open"

----------------------------------------------------------------------------
(* The alert store at capacity: the active symbol has ALERT_MAX_ITEMS      *)
(* rules, all untriggered or the two newest triggered, none of which the   *)
(* arriving tick fires; a rule is saved while the tick is evaluated.       *)

CapUntriggered ==
    {[id |-> i, symbol |-> AAPL, direction |-> "above", price |-> 3, triggered |-> FALSE] :
        i \in 1..ALERT_MAX_ITEMS}
    \cup {[id |-> ALERT_MAX_ITEMS + 1, symbol |-> TSLA, direction |-> "above", price |-> 1,
           triggered |-> FALSE]}

CapMixed ==
    {[id |-> i, symbol |-> AAPL, direction |-> "above", price |-> 3,
      triggered |-> (i > ALERT_MAX_ITEMS - 2)] : i \in 1..ALERT_MAX_ITEMS}
    \cup {[id |-> ALERT_MAX_ITEMS + 1, symbol |-> TSLA, direction |-> "above", price |-> 1,
           triggered |-> FALSE]}

CapTrades == {Trade(Sym(AAPL), Num(2), Num(1))}

CapInit ==
    \E rules \in {CapUntriggered, CapMixed} :
        Streaming(FALSE, FALSE, {}, rules, Inputs(MaxFrames, 0, 0, MaxEdits, 0))

CapNext ==
    \/ (\E s \in SockIds, f \in Singles(CapTrades) : TransportMessage(s, f))
          /\ spend("frames")
    \/ (\E t \in InFlight : PersistInsert(t, TRUE)) /\ UNCHANGED left
    \/ (\E t \in InFlight, tie \in TieOrders : PersistPrune(t, TRUE, tie)) /\ UNCHANGED left
    \/ (\E t \in InFlight : CheckAlerts(t, TRUE)) /\ UNCHANGED left
    \/ (\E t \in InFlight : AlertUpdate(t, TRUE)) /\ UNCHANGED left
    \/ (\E t \in InFlight, tie \in TieOrders : LoadAlertsDone(t, TRUE, tie)) /\ UNCHANGED left
    \/ (\E d \in Directions, text \in PriceTexts : HandleSaveAlert(d, text))
          /\ spend("edits")
    \/ (\E t \in InFlight : SaveInsert(t, TRUE)) /\ UNCHANGED left
    \/ (\E t \in InFlight : SavePrune(t, TRUE)) /\ UNCHANGED left
    \/ (\E t \in InFlight, tie \in TieOrders : SaveReload(t, TRUE, tie)) /\ UNCHANGED left

SpecCap == CapInit /\ [][CapNext]_vars

(* C38 as stated: when the pruning DELETE of a save has run, the symbol    *)
(* has at most ALERT_MAX_ITEMS rules, the rule the save inserted is among  *)
(* them, every rule removed was triggered where a rule kept is not, or is  *)
(* older than the rules kept of its own kind, and the rules of other       *)
(* symbols are as they were.                                               *)
C38_SavedRuleNeverPruned ==
    [][ (lastOp'.op = "savePrune" /\ lastOp'.ok) =>
          LET S == lastOp'.sym
              kept == RowsOf(price_alerts', S)
              pruned == RowsOf(price_alerts, S) \ kept
          IN /\ Cardinality(kept) <= ALERT_MAX_ITEMS
             /\ kept \subseteq RowsOf(price_alerts, S)
             /\ \A p \in pruned : p.id \notin lastOp'.ids
             /\ \A p \in pruned, k \in kept :
                    \/ p.triggered /\ ~k.triggered
                    \/ p.triggered = k.triggered /\ p.id < k.id
             /\ price_alerts' \ kept = price_alerts \ RowsOf(price_alerts, S)
      ]_vars

(* C38 amended: the same, except that the rule the save inserted is among  *)
(* the rules kept unless an evaluation has marked it triggered before the  *)
(* DELETE ran.                                                             *)
C38_SavePrunesOldestTriggeredFirst ==
    [][ (lastOp'.op = "savePrune" /\ lastOp'.ok) =>
          LET S == lastOp'.sym
              kept == RowsOf(price_alerts', S)
              pruned == RowsOf(price_alerts, S) \ kept
          IN /\ Cardinality(kept) <= ALERT_MAX_ITEMS
             /\ kept \subseteq RowsOf(price_alerts, S)
             /\ \A p \in pruned : p.id \in lastOp'.ids => p.triggered
             /\ \A p \in pruned, k \in kept :
                    \/ p.triggered /\ ~k.triggered
                    \/ p.triggered = k.triggered /\ p.id < k.id
             /\ price_alerts' \ kept = price_alerts \ RowsOf(price_alerts, S)
      ]_vars

(* C38 witness: a save into a full store has pruned the older of the two   *)
(* triggered rules and kept the saved rule and the oldest untriggered one. *)
C38_TriggeredRulePruned ==
    /\ lastOp.op = "savePrune" /\ lastOp.ok
    /\ Cardinality(RowsOf(price_alerts, AAPL)) = ALERT_MAX_ITEMS
    /\ \E r \in price_alerts : r.id \in lastOp.ids /\ ~r.triggered
    /\ \E r \in price_alerts : r.id = 1 /\ ~r.triggered
    /\ \E r \in price_alerts : r.id = ALERT_MAX_ITEMS /\ r.triggered
    /\ \A r \in price_alerts : r.id # ALERT_MAX_ITEMS - 1

----------------------------------------------------------------------------
(* Saving rules during start-up and after it: the price text is a positive *)
(* number, zero, a negative number or no number, and storage is not ready  *)
(* at first.                                                               *)

SaveInit == Mounted(TRUE, {}, SeedRules, Inputs(0, 0, 0, MaxEdits + 1, 0))

SaveNext ==
    \/ DbOpen(TRUE) /\ UNCHANGED left
    \/ DbCreate(TRUE) /\ UNCHANGED left
    \/ Setup /\ UNCHANGED left
    \/ (\E t \in InFlight, tie \in TieOrders : LoadAlertsDone(t, TRUE, tie)) /\ UNCHANGED left
    \/ (\E t \in InFlight, tie \in TieOrders : LoadCachedDone(t, TRUE, tie)) /\ UNCHANGED left
    \/ (\E d \in Directions, text \in PriceTexts : HandleSaveAlert(d, text))
          /\ spend("edits")
    \/ (\E t \in InFlight, ok \in BOOLEAN : SaveInsert(t, ok)) /\ UNCHANGED left
    \/ (\E t \in InFlight, ok \in BOOLEAN : SavePrune(t, ok)) /\ UNCHANGED left
    \/ (\E t \in InFlight, tie \in TieOrders : SaveReload(t, TRUE, tie)) /\ UNCHANGED left

SpecSave == SaveInit /\ [][SaveNext]_vars

(* C39: a save made while there is no storage handle, or with a price text *)
(* that is no number or is a number not above zero, starts no statement,   *)
(* leaves the alert store and the displayed list as they were and sets the *)
(* error line of the alert form; every row that any step adds to the alert *)
(* store has a price above zero and is untriggered, so every stored rule   *)
(* has a price above zero.                                                 *)
C39_InvalidSaveStoresNothing ==
    /\ \A r \in price_alerts : r.price > 0
    /\ [][ /\ lastOp'.op = "saveAlert" =>
                LET price == Number(lastOp'.text)
                IN (dbRef = NULL \/ price.nan \/ price.v <= 0) =>
                      /\ UNCHANGED <<price_alerts, sqlite_sequence, alerts, tasks>>
                      /\ alertError' = IF dbRef = NULL THEN StorageMsg ELSE PriceMsg
            /\ \A r \in price_alerts' :
                  (\A o \in price_alerts : o.id # r.id) => r.price > 0 /\ ~r.triggered
       ]_vars

(* C39 witness: with storage ready a save with the price text 0 has been   *)
(* refused.                                                                *)
C39_ZeroPriceRefused ==
    /\ lastOp.op = "saveAlert" /\ lastOp.text = NumText(0)
    /\ dbRef # NULL
    /\ alertError = PriceMsg

(* C40: for a rendered buffer of two or more entries the sparkline has as  *)
(* many points as the buffer has entries, point i is made from the entry   *)
(* i-th from the end of the buffer, its key is that entry's timestamp and  *)
(* its price is that entry's price.                                        *)
C40_SparklineIsReversedBuffer ==
    (lastOp.op = "render" /\ Len(lastOp.entries) >= 2) =>
        LET e == lastOp.entries
            points == lastOp.sparkline.points
        IN /\ Len(points) = Len(e)
           /\ \A i \in 1..Len(points) :
                 /\ points[i].key = e[Len(e) + 1 - i].timestamp
                 /\ points[i].price = e[Len(e) + 1 - i].price

(* C40 witness: a newest-first buffer of three entries with three          *)
(* timestamps and a first price other than the last has been rendered.     *)
C40_SparklineOfNewestFirst ==
    /\ lastOp.op = "render" /\ Len(lastOp.entries) = 3
    /\ lastOp.entries[1].timestamp > lastOp.entries[2].timestamp
    /\ lastOp.entries[2].timestamp > lastOp.entries[3].timestamp
    /\ lastOp.entries[1].price # lastOp.entries[3].price
    /\ lastOp.sparkline.points[1].key = lastOp.entries[3].timestamp

============================================================================
